---- MODULE Spec2Model ----
(***************************************************************************)
(* Edit staging, commit and session persistence of the presentation        *)
(* backend (backend/agent.py, backend/session.py, backend/models.py).      *)
(*                                                                         *)
(* Python values are modelled as follows.  A list is a sequence (1-based;  *)
(* the 0-based Python position p is element p + 1).  A dict is a record or *)
(* a function over its keys.  None is the string "None".  A session object *)
(* lives in heap and is referred to by its position in heap (0 = no        *)
(* object), so that the cache, the ContextVar and a request can hold the   *)
(* same object.  uuid4 edit ids are drawn from the counter nextId.         *)
(*                                                                         *)
(* current is the value of the ContextVar _current_session in the request  *)
(* that is running, parked its value in a request that is suspended at an  *)
(* await; lock is the holder of session_manager._lock; pc holds the        *)
(* position and the locals of the cleanup task, of the shutdown and of     *)
(* callers of the session manager where a specification follows them step  *)
(* by step; effects, where a specification keeps it, lists the ids of the  *)
(* edits for which a commit loop changed a slide list, in order.           *)
(***************************************************************************)
EXTENDS Integers, Sequences, FiniteSets, TLC

VARIABLES heap, cache, docs, db, current, clock, nextId, last, parked, lock, pc,
          effects

vars == <<heap, cache, docs, db, current, clock, nextId, last, parked, lock, pc, effects>>

(* ------------------------------ bounds --------------------------------- *)

\* staging calls that may enqueue an edit in one behaviour (edit ids drawn)
MaxEdits == 3
\* largest slide index / position a caller passes (the smallest is -1)
MaxIndex == 2
\* session objects constructed in one behaviour
MaxObjs == 1
\* slides of a deck that an earlier process left in a stored document
MaxStored == 3
\* queued edits in a stored document that staging did not write
MaxForeign == 2
\* the latest time datetime.now() gives, in ticks of half a second
MaxClock == 3
\* session objects constructed in one behaviour of the session store
MaxStoreObjs == 2

\* None where a string or a number is expected, and None / a missing entry
\* where a record is expected
None == "None"
NoPresentation == [none |-> "presentation"]
NoDoc == [none |-> "document"]
NoRow == [none |-> "row"]
\* {} (an empty dict)
EmptyDict == <<>>
\* no record is kept of the edits that changed a slide list
NotCounted == [on |-> FALSE, ids |-> <<>>]
\* session_manager._lock held by nobody, and a process with no task or thread
\* beside the request that is running
NoHolder == 0
NoProcesses == <<>>

Sids == {"s1"}
Htmls == {"A", "B"}
Titles == {"T"}
\* layout strings a caller passes: a known one, an unknown one, or none
LayoutArgs == {"title", "bogus"}
Indexes == (0 - 1)..MaxIndex
\* a request's context_files and continuation flag (one value each: the edit
\* protocol reads neither)
ContextArgs == {None}
ContinuationArgs == {FALSE}
\* the agent conversation handle a run ends with
AgentSessionIds == {"c1"}

(* ------------------------------ models.py ------------------------------ *)

\* class SlideLayout(Enum): value -> member
SlideLayout == [title |-> "TITLE", title_content |-> "TITLE_CONTENT",
                two_column |-> "TWO_COLUMN", blank |-> "BLANK"]

\* SlideLayout(value) raises ValueError for a value that is no member's value
LayoutRaises(value) == value \notin DOMAIN SlideLayout

\* member.value
LayoutValue(member) == CHOOSE v \in DOMAIN SlideLayout : SlideLayout[v] = member

\* Slide(index, html, layout, notes="")
Slide(index, html, layout) ==
    [index |-> index, html |-> html, layout |-> layout, notes |-> ""]

\* Presentation(title): no slides, empty theme
Presentation(title) == [title |-> title, slides |-> <<>>, theme |-> <<>>]

\* PendingEdit(edit_id, slide_index, operation, params, preview)
PendingEdit(edit_id, slide_index, operation, params, preview) ==
    [edit_id |-> edit_id, slide_index |-> slide_index, operation |-> operation,
     params |-> params, preview |-> preview]

\* PendingEdit.to_dict: the five fields, as they are
EditToDict(e) ==
    [edit_id |-> e.edit_id, slide_index |-> e.slide_index,
     operation |-> e.operation, params |-> e.params, preview |-> e.preview]

\* Slide.to_dict: the layout is stored by its value
SlideToDict(s) ==
    [index |-> s.index, html |-> s.html, layout |-> LayoutValue(s.layout),
     notes |-> s.notes]

\* Presentation.to_dict
PresentationToDict(p) ==
    [title |-> p.title,
     slides |-> [i \in 1..Len(p.slides) |-> SlideToDict(p.slides[i])],
     theme |-> p.theme]

\* PendingEdit.from_dict: the five keys, read with data[...]
EditFromDict(d) ==
    PendingEdit(d.edit_id, d.slide_index, d.operation, d.params, d.preview)

\* dict.get(key, default)
DictGet(d, key, default) == IF key \in DOMAIN d THEN d[key] ELSE default

(* ------------------------------ Python lists --------------------------- *)

\* list.insert(i, x): a negative i counts from the end, and the position is
\* clamped into 0..len
ListInsert(s, i, x) ==
    LET n == Len(s)
        j0 == IF i < 0 THEN i + n ELSE i
        j == IF j0 < 0 THEN 0 ELSE IF j0 > n THEN n ELSE j0
    IN  SubSeq(s, 1, j) \o <<x>> \o SubSeq(s, j + 1, n)

\* del s[i] / s.pop(i) for 0 <= i < len(s): the list without position i
ListRemove(s, i) == SubSeq(s, 1, i) \o SubSeq(s, i + 2, Len(s))

\* a faulty Reindex: the loop forgotten, every slide keeps its index
ReindexForgotten(slides) == slides

\* for i, s in enumerate(slides): s.index = i
Reindex(slides) ==
    [i \in 1..Len(slides) |-> [slides[i] EXCEPT !.index = i - 1]]

(* ------------------------------ datetime ------------------------------- *)

\* A datetime is a number of ticks of half a second: tick t is second
\* t \div 2 with the microsecond field 0 (t even) or 500000 (t odd).
\* datetime.isoformat() writes the second and then, only when the microsecond
\* field is not 0, the fraction; the text is the sequence of its fields.
Isoformat(t) == IF t % 2 = 0 THEN <<t \div 2>> ELSE <<t \div 2, 5>>

\* datetime.fromisoformat(text)
FromIsoformat(text) == 2 * text[1] + (IF Len(text) = 2 THEN 1 ELSE 0)

\* text a < text b as SQLite compares two TEXT values: field by field, and a
\* text that is a proper prefix of another is the smaller
RECURSIVE TextLess(_, _)
TextLess(a, b) ==
    IF b = <<>> THEN FALSE
    ELSE IF a = <<>> THEN TRUE
    ELSE IF Head(a) # Head(b) THEN Head(a) < Head(b)
    ELSE TextLess(Tail(a), Tail(b))

(* ------------------------------ session.py ----------------------------- *)

\* PresentationSession.__init__(session_id), constructed at time now
PresentationSession(session_id, now) ==
    [session_id |-> session_id, presentation |-> NoPresentation,
     pending_edits |-> <<>>, applied_edits |-> <<>>, context_files |-> <<>>,
     style_template |-> None, is_continuation |-> FALSE,
     claude_session_id |-> None, created_at |-> now, updated_at |-> now]

\* PresentationSession.to_dict: the full document of a session
SessionToDict(s) ==
    [session_id |-> s.session_id,
     presentation |-> IF s.presentation = NoPresentation THEN NoPresentation
                      ELSE PresentationToDict(s.presentation),
     pending_edits |-> [i \in 1..Len(s.pending_edits) |->
                            EditToDict(s.pending_edits[i])],
     applied_edits |-> s.applied_edits, context_files |-> s.context_files,
     style_template |-> s.style_template, is_continuation |-> s.is_continuation,
     claude_session_id |-> s.claude_session_id,
     created_at |-> Isoformat(s.created_at),
     updated_at |-> Isoformat(s.updated_at)]

\* the row _save_to_db writes (INSERT OR REPLACE)
IndexRow(s) ==
    [session_id |-> s.session_id, created_at |-> Isoformat(s.created_at),
     updated_at |-> Isoformat(s.updated_at),
     claude_session_id |-> s.claude_session_id]

\* a faulty save_session: the document is not rewritten
save_sessionIndexOnly(o, s) ==
    LET stamped == [s EXCEPT !.updated_at = clock]
    IN  /\ heap' = [heap EXCEPT ![o] = stamped]
        /\ cache' = [cache EXCEPT ![stamped.session_id] = o]
        /\ docs' = docs
        /\ db' = [db EXCEPT ![stamped.session_id] = IndexRow(stamped)]

\* a faulty save_session: the index row is written before updated_at is
\* stamped
save_sessionStaleIndex(o, s) ==
    LET stamped == [s EXCEPT !.updated_at = clock]
    IN  /\ heap' = [heap EXCEPT ![o] = stamped]
        /\ cache' = [cache EXCEPT ![stamped.session_id] = o]
        /\ docs' = [docs EXCEPT ![stamped.session_id] = SessionToDict(stamped)]
        /\ db' = [db EXCEPT ![stamped.session_id] = IndexRow(s)]

\* SessionManager.save_session(session), for the object o whose fields the
\* caller has brought to s: stamp updated_at, cache the object, rewrite the
\* document and the index row
save_session(o, s) ==
    LET stamped == [s EXCEPT !.updated_at = clock]
    IN  /\ heap' = [heap EXCEPT ![o] = stamped]
        /\ cache' = [cache EXCEPT ![stamped.session_id] = o]
        /\ docs' = [docs EXCEPT ![stamped.session_id] = SessionToDict(stamped)]
        /\ db' = [db EXCEPT ![stamped.session_id] = IndexRow(stamped)]

\* a faulty SlideFromDict: the stored layout is not read
SlideFromDictBlank(d) ==
    [index |-> d.index, html |-> d.html, layout |-> SlideLayout["blank"],
     notes |-> DictGet(d, "notes", "")]

\* Slide.from_dict / Presentation.from_dict: the layout value is looked up
\* again (and raises for an unknown one)
SlideFromDict(d) ==
    [index |-> d.index, html |-> d.html,
     layout |-> SlideLayout[DictGet(d, "layout", "blank")],
     notes |-> DictGet(d, "notes", "")]
PresentationFromDict(d) ==
    [title |-> d.title,
     slides |-> [i \in 1..Len(d.slides) |-> SlideFromDict(d.slides[i])],
     theme |-> DictGet(d, "theme", EmptyDict)]

\* a session.json that is no JSON text (json.load raises), and one that
\* cannot be opened (open raises)
Garbled == [garbled |-> "session.json"]
Unreadable == [unreadable |-> "session.json"]

\* PresentationSession.from_dict raises: a key read with data[...] is
\* missing (KeyError), or a slide has an unknown layout value (ValueError)
FromDictRaises(d) ==
    \/ {"session_id", "created_at", "updated_at"} \ DOMAIN d # {}
    \/ /\ DictGet(d, "presentation", NoPresentation) # NoPresentation
       /\ \E i \in 1..Len(d.presentation.slides) :
              LayoutRaises(DictGet(d.presentation.slides[i], "layout", "blank"))

\* PresentationSession.from_dict
SessionFromDict(d) ==
    [session_id |-> d.session_id,
     presentation |-> IF DictGet(d, "presentation", NoPresentation) = NoPresentation
                      THEN NoPresentation
                      ELSE PresentationFromDict(d.presentation),
     pending_edits |-> LET q == DictGet(d, "pending_edits", <<>>)
                       IN  [i \in 1..Len(q) |-> EditFromDict(q[i])],
     applied_edits |-> DictGet(d, "applied_edits", <<>>),
     context_files |-> DictGet(d, "context_files", <<>>),
     style_template |-> DictGet(d, "style_template", None),
     is_continuation |-> DictGet(d, "is_continuation", FALSE),
     claude_session_id |-> DictGet(d, "claude_session_id", None),
     created_at |-> FromIsoformat(d.created_at),
     updated_at |-> FromIsoformat(d.updated_at)]

\* SessionManager._load_from_disk can return a session: the document exists,
\* can be read, is JSON and deserializes (any exception is logged and None
\* returned)
Loadable(session_id) ==
    /\ docs[session_id] # NoDoc
    /\ docs[session_id] \notin {Garbled, Unreadable}
    /\ ~FromDictRaises(docs[session_id])

(* ------------------------------ agent.py: commit ----------------------- *)

\* One pass of the body of the try block of tool_commit_edits for an ADD:
\* the slide sequence afterwards, and whether the body raised (the
\* SlideLayout lookup raises before the list is touched)
ApplyAdd(slides, edit) ==
    IF LayoutRaises(DictGet(edit.params, "layout", "blank"))
    THEN [raised |-> TRUE, slides |-> slides]
    ELSE LET slide == Slide(edit.slide_index, DictGet(edit.params, "html", ""),
                           SlideLayout[DictGet(edit.params, "layout", "blank")])
         IN  [raised |-> FALSE,
              slides |-> Reindex(IF edit.slide_index >= Len(slides)
                                 THEN Append(slides, slide)
                                 ELSE ListInsert(slides, edit.slide_index, slide))]

\* ... for an UPDATE: html replaced in place when the index is in range
ApplyUpdate(slides, edit) ==
    [raised |-> FALSE,
     slides |-> IF 0 <= edit.slide_index /\ edit.slide_index < Len(slides)
                THEN [slides EXCEPT ![edit.slide_index + 1].html =
                                        DictGet(edit.params, "html", "")]
                ELSE slides]

\* ... for a DELETE: the slide removed and the rest re-indexed when in range
ApplyDelete(slides, edit) ==
    [raised |-> FALSE,
     slides |-> IF 0 <= edit.slide_index /\ edit.slide_index < Len(slides)
                THEN Reindex(ListRemove(slides, edit.slide_index))
                ELSE slides]

\* a faulty ApplyReorder: the slide is inserted before it is removed
ApplyReorderInsertFirst(slides, edit) ==
    LET to_index == DictGet(edit.params, "to_index", 0)
    IN  [raised |-> FALSE,
         slides |-> IF 0 <= edit.slide_index /\ edit.slide_index < Len(slides)
                    THEN Reindex(ListRemove(ListInsert(slides, to_index,
                                                       slides[edit.slide_index + 1]),
                                            edit.slide_index))
                    ELSE slides]

\* ... for a REORDER: pop(slide_index), insert(to_index, slide), re-index
ApplyReorder(slides, edit) ==
    LET to_index == DictGet(edit.params, "to_index", 0)
    IN  [raised |-> FALSE,
         slides |-> IF 0 <= edit.slide_index /\ edit.slide_index < Len(slides)
                    THEN Reindex(ListInsert(ListRemove(slides, edit.slide_index),
                                            to_index,
                                            slides[edit.slide_index + 1]))
                    ELSE slides]

\* the if / elif chain on edit.operation; an operation that is none of the
\* four falls through it
ApplyEdit(slides, edit) ==
    CASE edit.operation = "ADD" -> ApplyAdd(slides, edit)
      [] edit.operation = "UPDATE" -> ApplyUpdate(slides, edit)
      [] edit.operation = "DELETE" -> ApplyDelete(slides, edit)
      [] edit.operation = "REORDER" -> ApplyReorder(slides, edit)
      [] OTHER -> [raised |-> FALSE, slides |-> slides]

\* the body of the try block changes the slide list for edit
ChangesSlides(slides, edit) ==
    CASE edit.operation = "ADD" ->
             ~LayoutRaises(DictGet(edit.params, "layout", "blank"))
      [] edit.operation \in {"UPDATE", "DELETE", "REORDER"} ->
             0 <= edit.slide_index /\ edit.slide_index < Len(slides)
      [] OTHER -> FALSE

\* the ids of the edits for which the loop changes the slide list, from
\* position i of the queue on, in the order of the loop
RECURSIVE Effects(_, _, _)
Effects(pending_edits, i, slides) ==
    IF i > Len(pending_edits) THEN <<>>
    ELSE LET edit == pending_edits[i]
         IN  (IF ChangesSlides(slides, edit) THEN <<edit.edit_id>> ELSE <<>>)
                 \o Effects(pending_edits, i + 1, ApplyEdit(slides, edit).slides)

\* a faulty CommitLoop: the queue taken from its end (newest edit first)
RECURSIVE CommitLoopReversed(_, _, _)
CommitLoopReversed(pending_edits, i, acc) ==
    IF i > Len(pending_edits) THEN acc
    ELSE LET edit == pending_edits[Len(pending_edits) + 1 - i]
             r == ApplyEdit(acc.slides, edit)
         IN  CommitLoopReversed(pending_edits, i + 1,
                 IF r.raised
                 THEN [acc EXCEPT !.slides = r.slides]
                 ELSE [slides |-> r.slides,
                       applied_edits |-> Append(acc.applied_edits, EditToDict(edit)),
                       applied_count |-> acc.applied_count + 1])

\* a faulty CommitLoop: the first edit that raises ends the pass
RECURSIVE CommitLoopStopsOnRaise(_, _, _)
CommitLoopStopsOnRaise(pending_edits, i, acc) ==
    IF i > Len(pending_edits) THEN acc
    ELSE LET edit == pending_edits[i]
             r == ApplyEdit(acc.slides, edit)
         IN  IF r.raised THEN [acc EXCEPT !.slides = r.slides]
             ELSE CommitLoopStopsOnRaise(pending_edits, i + 1,
                      [slides |-> r.slides,
                       applied_edits |-> Append(acc.applied_edits, EditToDict(edit)),
                       applied_count |-> acc.applied_count + 1])

\* a faulty CommitLoop: the loop ends after the first edit of the queue
CommitLoopFirstOnly(pending_edits, i, acc) ==
    IF i > Len(pending_edits) THEN acc
    ELSE LET edit == pending_edits[i]
             r == ApplyEdit(acc.slides, edit)
         IN  IF r.raised THEN [acc EXCEPT !.slides = r.slides]
             ELSE [slides |-> r.slides,
                   applied_edits |-> Append(acc.applied_edits, EditToDict(edit)),
                   applied_count |-> acc.applied_count + 1]

\* the for loop of tool_commit_edits from position i of the queue on, with
\* acc the slide sequence, the audit trail and applied_count so far: an edit
\* whose body raised is logged and neither recorded nor counted
RECURSIVE CommitLoop(_, _, _)
CommitLoop(pending_edits, i, acc) ==
    IF i > Len(pending_edits) THEN acc
    ELSE LET edit == pending_edits[i]
             r == ApplyEdit(acc.slides, edit)
         IN  CommitLoop(pending_edits, i + 1,
                 IF r.raised
                 THEN [acc EXCEPT !.slides = r.slides]
                 ELSE [slides |-> r.slides,
                       applied_edits |-> Append(acc.applied_edits, EditToDict(edit)),
                       applied_count |-> acc.applied_count + 1])

(* ------------------------------ state ---------------------------------- *)

\* the session bound by set_current_session (get_current_session())
Bound == current # 0
Session == heap[current]

\* what the last call returned: op names the operation, ret is the returned
\* dict, and pre is the bound session as the call found it
Returned(op, ret, pre) == [op |-> op, ret |-> ret, pre |-> pre]
Error(message) == [error |-> message]
NoCall == Returned("none", EmptyDict, EmptyDict)

\* the process starts with an empty cache, no stored sessions and no session
\* bound
Init ==
    /\ heap = <<>>
    /\ cache = [id \in Sids |-> 0]
    /\ docs = [id \in Sids |-> NoDoc]
    /\ db = [id \in Sids |-> NoRow]
    /\ current = 0
    /\ clock = 0
    /\ nextId = 0
    /\ last = NoCall
    /\ parked = 0
    /\ lock = NoHolder
    /\ pc = NoProcesses
    /\ effects = NotCounted

(* ------------------------------ agent.py: a run ------------------------ *)

\* a uuid4 session id: an id that names nothing yet
FreshSid(id) == cache[id] = 0 /\ docs[id] = NoDoc /\ db[id] = NoRow

\* the session objects one behaviour may construct
ObjLimit == IF DOMAIN cache = Sids THEN MaxObjs ELSE MaxStoreObjs

\* a faulty get_or_create_session: a cached session is replaced by a new one
get_or_create_sessionAlwaysNew(session_id, uuid) ==
    LET id == IF session_id # None THEN session_id ELSE uuid
        o == Len(heap) + 1
        new == PresentationSession(id, clock)
    IN  [how |-> "created", session |-> o, heap |-> Append(heap, new),
         cache |-> [cache EXCEPT ![id] = o],
         db |-> [db EXCEPT ![id] = IndexRow(new)]]

\* SessionManager.get_or_create_session(session_id), with uuid the id that
\* uuid4 gives if a session is constructed without one: the object returned
\* and the heap, the cache and the index afterwards.  A new session is cached
\* and written to the index (_save_to_db); no document is written.
get_or_create_session(session_id, uuid) ==
    IF session_id # None /\ cache[session_id] # 0
    THEN [how |-> "cached", session |-> cache[session_id], heap |-> heap,
          cache |-> cache, db |-> db]
    ELSE IF session_id # None /\ Loadable(session_id)
    THEN [how |-> "loaded", session |-> Len(heap) + 1,
          heap |-> Append(heap, SessionFromDict(docs[session_id])),
          cache |-> [cache EXCEPT ![session_id] = Len(heap) + 1], db |-> db]
    ELSE LET id == IF session_id # None THEN session_id ELSE uuid
             new == PresentationSession(id, clock)
         IN  [how |-> "created", session |-> Len(heap) + 1,
              heap |-> Append(heap, new),
              cache |-> [cache EXCEPT ![id] = Len(heap) + 1],
              db |-> [db EXCEPT ![id] = IndexRow(new)]]

\* a faulty load_session: a session that is not found is constructed
load_sessionCreates(session_id) ==
    LET got == get_or_create_session(session_id, session_id)
    IN  [session |-> got.session, heap |-> got.heap, cache |-> got.cache]

\* a faulty load_session: what could be read of a document that does not
\* deserialize is cached
load_sessionCachesPartial(session_id) ==
    IF cache[session_id] # 0
    THEN [session |-> cache[session_id], heap |-> heap, cache |-> cache]
    ELSE IF Loadable(session_id)
    THEN [session |-> Len(heap) + 1,
          heap |-> Append(heap, SessionFromDict(docs[session_id])),
          cache |-> [cache EXCEPT ![session_id] = Len(heap) + 1]]
    ELSE IF docs[session_id] # NoDoc
    THEN [session |-> 0,
          heap |-> Append(heap, PresentationSession(session_id, clock)),
          cache |-> [cache EXCEPT ![session_id] = Len(heap) + 1]]
    ELSE [session |-> 0, heap |-> heap, cache |-> cache]

\* SessionManager.load_session(session_id): the object returned (0 for None)
\* and the heap and the cache afterwards
load_session(session_id) ==
    IF cache[session_id] # 0
    THEN [session |-> cache[session_id], heap |-> heap, cache |-> cache]
    ELSE IF Loadable(session_id)
    THEN [session |-> Len(heap) + 1,
          heap |-> Append(heap, SessionFromDict(docs[session_id])),
          cache |-> [cache EXCEPT ![session_id] = Len(heap) + 1]]
    ELSE [session |-> 0, heap |-> heap, cache |-> cache]

\* run_agent_stream up to the first tool call (agent.py:842-852):
\* get_or_create_session(user_session_id), context_files, set_current_session,
\* is_continuation (last.pre tells how the session was got)
run_agent_stream_begin(user_session_id, context_files, is_continuation) ==
    /\ current = 0
    /\ \E uuid \in DOMAIN cache :
        /\ IF user_session_id = None THEN FreshSid(uuid)
           ELSE uuid = user_session_id
        /\ LET got == get_or_create_session(user_session_id, uuid)
               session == [got.heap[got.session] EXCEPT
                              !.context_files = IF context_files # None
                                                THEN context_files ELSE @,
                              !.is_continuation = is_continuation]
           IN  /\ got.how = "cached" \/ Len(heap) < ObjLimit
               /\ heap' = [got.heap EXCEPT ![got.session] = session]
               /\ cache' = got.cache
               /\ db' = got.db
               /\ current' = got.session
               /\ last' = Returned("run_agent_stream_begin",
                                   [session_id |-> session.session_id],
                                   [how |-> got.how])
    /\ UNCHANGED <<docs, clock, nextId, parked, lock, pc, effects>>

\* run_agent_stream after the last message (agent.py:895-901): the session
\* is unbound, takes the conversation handle and is saved
run_agent_stream_end(agent_session_id) ==
    /\ current # 0
    /\ save_session(current, [Session EXCEPT !.claude_session_id = agent_session_id])
    /\ current' = 0
    /\ last' = Returned("run_agent_stream_end", [success |-> TRUE], EmptyDict)
    /\ UNCHANGED <<clock, nextId, parked, lock, pc, effects>>

\* run_agent_stream when the agent raised (agent.py:888-896): the session is
\* unbound and not saved
run_agent_stream_error ==
    /\ current # 0
    /\ current' = 0
    /\ last' = Returned("run_agent_stream_error", Error("Agent error"), EmptyDict)
    /\ UNCHANGED <<heap, cache, docs, db, clock, nextId, parked, lock, pc, effects>>

(* ------------------------------ agent.py: tools ------------------------ *)

\* a faulty Refuse: the tool raises instead of returning the error dict
RefuseRaises(op, ret) ==
    /\ last' = Returned(op, [raised |-> ret.error], EmptyDict)
    /\ UNCHANGED <<heap, cache, docs, db, current, clock, nextId, parked, lock, pc, effects>>

\* a tool call that returns ret and changes nothing
Refuse(op, ret) ==
    /\ last' = Returned(op, ret, EmptyDict)
    /\ UNCHANGED <<heap, cache, docs, db, current, clock, nextId, parked, lock, pc, effects>>

\* a faulty Enqueue: the staged edit is written through to the document
EnqueueWriteThrough(op, edit, ret) ==
    /\ nextId < MaxEdits
    /\ heap' = [heap EXCEPT ![current].pending_edits = Append(@, edit)]
    /\ docs' = [docs EXCEPT ![Session.session_id] =
                    SessionToDict([Session EXCEPT !.pending_edits = Append(@, edit)])]
    /\ nextId' = nextId + 1
    /\ last' = Returned(op, ret, EmptyDict)
    /\ UNCHANGED <<cache, db, current, clock, parked, lock, pc, effects>>

\* session.pending_edits.append(edit) and the returned dict
Enqueue(op, edit, ret) ==
    /\ nextId < MaxEdits
    /\ heap' = [heap EXCEPT ![current].pending_edits = Append(@, edit)]
    /\ nextId' = nextId + 1
    /\ last' = Returned(op, ret, EmptyDict)
    /\ UNCHANGED <<cache, docs, db, current, clock, parked, lock, pc, effects>>

\* a faulty InvalidIndex: the upper bound off by one
InvalidIndexOffByOne(index, slides) == index < 0 \/ index > Len(slides)

\* the index check of update_slide, delete_slide and reorder_slides against
\* the committed slides (agent.py:160, 186, 217, 219)
InvalidIndex(index, slides) == index < 0 \/ index >= Len(slides)

\* a faulty ResolveIndex: the queued ADDs are not counted
ResolveIndexNoPending(args, current_slide_count, pending_add_count) ==
    IF "position" \notin DOMAIN args
    THEN current_slide_count
    ELSE IF args.position >= current_slide_count
    THEN current_slide_count
    ELSE IF args.position > 0 THEN args.position ELSE 0

\* the position of a staged ADD (agent.py:123-130): the end of the deck as
\* it will be once the queued ADDs are in, or the given position, not below 0
ResolveIndex(args, current_slide_count, pending_add_count) ==
    IF "position" \notin DOMAIN args
    THEN current_slide_count + pending_add_count
    ELSE IF args.position >= current_slide_count + pending_add_count
    THEN current_slide_count + pending_add_count
    ELSE IF args.position > 0 THEN args.position ELSE 0

\* a faulty tool_create_presentation: the queue is kept
tool_create_presentationKeepsQueue(args) ==
    IF ~Bound THEN Refuse("create_presentation", Error("No active session"))
    ELSE LET title == DictGet(args, "title", "Untitled Presentation")
         IN  /\ heap' = [heap EXCEPT ![current].presentation = Presentation(title),
                                     ![current].applied_edits = <<>>]
             /\ last' = Returned("create_presentation",
                                 [success |-> TRUE, title |-> title, slide_count |-> 0],
                                 EmptyDict)
             /\ UNCHANGED <<cache, docs, db, current, clock, nextId, parked, lock, pc, effects>>

\* tool_create_presentation (agent.py:84-96): a new presentation, and the
\* queue and the audit trail emptied
tool_create_presentation(args) ==
    IF ~Bound THEN Refuse("create_presentation", Error("No active session"))
    ELSE LET title == DictGet(args, "title", "Untitled Presentation")
         IN  /\ heap' = [heap EXCEPT ![current].presentation = Presentation(title),
                                     ![current].pending_edits = <<>>,
                                     ![current].applied_edits = <<>>]
             /\ last' = Returned("create_presentation",
                                 [success |-> TRUE, title |-> title, slide_count |-> 0],
                                 EmptyDict)
             /\ UNCHANGED <<cache, docs, db, current, clock, nextId, parked, lock, pc, effects>>

\* a faulty tool_add_slide: every queued edit is counted as a queued ADD
tool_add_slideCountsAll(args) ==
    IF ~Bound THEN Refuse("add_slide", Error("No active session"))
    ELSE IF Session.presentation = NoPresentation
    THEN Refuse("add_slide",
                Error("No presentation created. Use create_presentation first."))
    ELSE LET html == DictGet(args, "html", "")
             layout_str == DictGet(args, "layout", "blank")
             layout == IF LayoutRaises(layout_str) THEN SlideLayout["blank"]
                       ELSE SlideLayout[layout_str]
             pending_add_count == Len(Session.pending_edits)
             current_slide_count == Len(Session.presentation.slides)
             index == ResolveIndex(args, current_slide_count, pending_add_count)
             edit == PendingEdit(nextId, index, "ADD",
                                 [html |-> html, layout |-> LayoutValue(layout)],
                                 <<"Add slide at position", index + 1>>)
         IN  Enqueue("add_slide", edit,
                     [success |-> TRUE, slide_index |-> index,
                      edit_id |-> edit.edit_id])

tool_add_slide(args) ==
    IF ~Bound THEN Refuse("add_slide", Error("No active session"))
    ELSE IF Session.presentation = NoPresentation
    THEN Refuse("add_slide",
                Error("No presentation created. Use create_presentation first."))
    ELSE LET html == DictGet(args, "html", "")
             layout_str == DictGet(args, "layout", "blank")
             layout == IF LayoutRaises(layout_str) THEN SlideLayout["blank"]
                       ELSE SlideLayout[layout_str]
             pending_add_count ==
                 Cardinality({i \in 1..Len(Session.pending_edits) :
                                  Session.pending_edits[i].operation = "ADD"})
             current_slide_count == Len(Session.presentation.slides)
             index == ResolveIndex(args, current_slide_count, pending_add_count)
             edit == PendingEdit(nextId, index, "ADD",
                                 [html |-> html, layout |-> LayoutValue(layout)],
                                 <<"Add slide at position", index + 1>>)
         IN  Enqueue("add_slide", edit,
                     [success |-> TRUE, slide_index |-> index,
                      edit_id |-> edit.edit_id])

tool_update_slide(args) ==
    IF ~Bound THEN Refuse("update_slide", Error("No active session"))
    ELSE IF Session.presentation = NoPresentation
    THEN Refuse("update_slide", Error("No presentation loaded"))
    ELSE LET slide_index == DictGet(args, "slide_index", 0)
             html == DictGet(args, "html", "")
             edit == PendingEdit(nextId, slide_index, "UPDATE", [html |-> html],
                                 <<"Update slide", slide_index + 1>>)
         IN  IF InvalidIndex(slide_index, Session.presentation.slides)
             THEN Refuse("update_slide", Error(<<"Invalid slide index:", slide_index>>))
             ELSE Enqueue("update_slide", edit,
                          [success |-> TRUE, slide_index |-> slide_index,
                           edit_id |-> edit.edit_id])

tool_delete_slide(args) ==
    IF ~Bound THEN Refuse("delete_slide", Error("No active session"))
    ELSE IF Session.presentation = NoPresentation
    THEN Refuse("delete_slide", Error("No presentation loaded"))
    ELSE LET slide_index == DictGet(args, "slide_index", 0)
             edit == PendingEdit(nextId, slide_index, "DELETE", EmptyDict,
                                 <<"Delete slide", slide_index + 1>>)
         IN  IF InvalidIndex(slide_index, Session.presentation.slides)
             THEN Refuse("delete_slide", Error(<<"Invalid slide index:", slide_index>>))
             ELSE Enqueue("delete_slide", edit,
                          [success |-> TRUE, slide_index |-> slide_index,
                           edit_id |-> edit.edit_id])

tool_reorder_slides(args) ==
    IF ~Bound THEN Refuse("reorder_slides", Error("No active session"))
    ELSE IF Session.presentation = NoPresentation
    THEN Refuse("reorder_slides", Error("No presentation loaded"))
    ELSE LET from_index == DictGet(args, "from_index", 0)
             to_index == DictGet(args, "to_index", 0)
             edit == PendingEdit(nextId, from_index, "REORDER",
                                 [to_index |-> to_index],
                                 <<"Move slide", from_index + 1, "to position",
                                   to_index + 1>>)
         IN  IF InvalidIndex(from_index, Session.presentation.slides)
             THEN Refuse("reorder_slides", Error(<<"Invalid from_index:", from_index>>))
             ELSE IF InvalidIndex(to_index, Session.presentation.slides)
             THEN Refuse("reorder_slides", Error(<<"Invalid to_index:", to_index>>))
             ELSE Enqueue("reorder_slides", edit,
                          [success |-> TRUE, from_index |-> from_index,
                           to_index |-> to_index])

\* tool_set_theme: the theme dict replaces the presentation's
tool_set_theme(args) ==
    IF ~Bound THEN Refuse("set_theme", Error("No active session"))
    ELSE IF Session.presentation = NoPresentation
    THEN Refuse("set_theme", Error("No presentation created"))
    ELSE LET theme == DictGet(args, "theme", EmptyDict)
         IN  /\ heap' = [heap EXCEPT ![current].presentation.theme = theme]
             /\ last' = Returned("set_theme", [success |-> TRUE, theme |-> theme],
                                 EmptyDict)
             /\ UNCHANGED <<cache, docs, db, current, clock, nextId, parked, lock, pc, effects>>

\* effects after a commit loop over pending_edits that starts from slides
Counted(pending_edits, slides) ==
    IF effects.on
    THEN [effects EXCEPT !.ids = @ \o Effects(pending_edits, 1, slides)]
    ELSE effects

\* a faulty ClearedQueue: the queue stays as it is
ClearedQueueKept(pending_edits) == pending_edits

\* a faulty ClearedQueue: only the first edit leaves the queue
ClearedQueueHeadOnly(pending_edits) ==
    IF pending_edits = <<>> THEN <<>> ELSE Tail(pending_edits)

\* session.pending_edits = [] after the loop (agent.py:375)
ClearedQueue(pending_edits) == <<>>

\* a faulty CommitReturn: a pass that applied nothing is reported as failed
CommitReturnFailsOnNone(done) ==
    IF done.applied_count = 0 THEN Error("No edits applied")
    ELSE [success |-> TRUE, applied_count |-> done.applied_count,
          total_slides |-> Len(done.slides)]

\* a faulty CommitReturn: the slides are counted as the edits are
CommitReturnCountsEdits(done) ==
    [success |-> TRUE, applied_count |-> done.applied_count,
     total_slides |-> done.applied_count]

\* the dict tool_commit_edits returns (agent.py:380-384)
CommitReturn(done) ==
    [success |-> TRUE, applied_count |-> done.applied_count,
     total_slides |-> Len(done.slides)]

\* a faulty tool_commit_edits: the session is saved before the queue is
\* cleared
tool_commit_editsSaveBeforeClear ==
    IF ~Bound THEN Refuse("commit_edits", Error("No active session"))
    ELSE IF Session.presentation = NoPresentation
    THEN Refuse("commit_edits", Error("No presentation created"))
    ELSE LET done == CommitLoop(Session.pending_edits, 1,
                         [slides |-> Session.presentation.slides,
                          applied_edits |-> Session.applied_edits,
                          applied_count |-> 0])
             applied == [Session EXCEPT !.presentation.slides = done.slides,
                                        !.applied_edits = done.applied_edits,
                                        !.updated_at = clock]
         IN  /\ heap' = [heap EXCEPT ![current] =
                            [applied EXCEPT !.pending_edits =
                                                ClearedQueue(Session.pending_edits)]]
             /\ cache' = [cache EXCEPT ![applied.session_id] = current]
             /\ docs' = [docs EXCEPT ![applied.session_id] = SessionToDict(applied)]
             /\ db' = [db EXCEPT ![applied.session_id] = IndexRow(applied)]
             /\ last' = Returned("commit_edits", CommitReturn(done), Session)
             /\ effects' = Counted(Session.pending_edits,
                                   Session.presentation.slides)
             /\ UNCHANGED <<current, clock, nextId, parked, lock, pc>>

\* tool_commit_edits: the loop over the queue (agent.py:330-372), the queue
\* cleared (375), the session saved (378), the counts returned (380-384)
tool_commit_edits ==
    IF ~Bound THEN Refuse("commit_edits", Error("No active session"))
    ELSE IF Session.presentation = NoPresentation
    THEN Refuse("commit_edits", Error("No presentation created"))
    ELSE LET done == CommitLoop(Session.pending_edits, 1,
                         [slides |-> Session.presentation.slides,
                          applied_edits |-> Session.applied_edits,
                          applied_count |-> 0])
         IN  /\ save_session(current,
                    [Session EXCEPT !.presentation.slides = done.slides,
                                    !.applied_edits = done.applied_edits,
                                    !.pending_edits = ClearedQueue(Session.pending_edits)])
             /\ last' = Returned("commit_edits", CommitReturn(done), Session)
             /\ effects' = Counted(Session.pending_edits,
                                   Session.presentation.slides)
             /\ UNCHANGED <<current, clock, nextId, parked, lock, pc>>

(* ------------------------------ main.py -------------------------------- *)

\* GET /session/{session_id} (main.py:213-227): load_session, then 404 or
\* the session's presentation and queue as dicts (last.pre tells the id asked
\* for and whether the call found it in the cache)
get_session(session_id) ==
    LET got == load_session(session_id)
        session == got.heap[got.session]
    IN  /\ got.heap = heap \/ Len(heap) < ObjLimit
        /\ heap' = got.heap
        /\ cache' = got.cache
        /\ last' = IF got.session = 0
                   THEN Returned("get_session", Error("Session not found"),
                                 [session_id |-> session_id, cached |-> FALSE])
                   ELSE Returned("get_session",
                            [session_id |-> session.session_id,
                             presentation |->
                                 IF session.presentation = NoPresentation
                                 THEN NoPresentation
                                 ELSE PresentationToDict(session.presentation),
                             pending_edits |->
                                 [i \in 1..Len(session.pending_edits) |->
                                      EditToDict(session.pending_edits[i])],
                             is_continuation |-> session.is_continuation],
                            [session_id |-> session_id,
                             cached |-> cache[session_id] # 0])
        /\ UNCHANGED <<docs, db, current, clock, nextId, parked, lock, pc, effects>>

\* the retention window of the cleanup task (timedelta(hours=24)), in ticks
RetentionTicks == 1

\* a faulty OldSessions: a row as old as the cutoff is selected as well
OldSessionsInclusive(cutoff) ==
    {id \in DOMAIN db : db[id] # NoRow
                           /\ ~TextLess(Isoformat(cutoff), db[id].updated_at)}

\* SELECT session_id FROM sessions WHERE updated_at < cutoff.isoformat()
OldSessions(cutoff) ==
    {id \in DOMAIN db : db[id] # NoRow
                           /\ TextLess(db[id].updated_at, Isoformat(cutoff))}

\* what the pass before this one returned, when the call before this one
\* was a pass with the same cutoff (and -1 when it was not)
PassBefore(cutoff) ==
    IF last.op = "cleanup_old_sessions" /\ last.pre.cutoff = cutoff
    THEN last.ret.cleaned ELSE 0 - 1

\* a faulty cleanup_old_sessions: the row of a removed session stays
cleanup_old_sessionsKeepsRow(cutoff) ==
    LET old_sessions == OldSessions(cutoff)
    IN  /\ cache' = [id \in DOMAIN cache |->
                         IF id \in old_sessions THEN 0 ELSE cache[id]]
        /\ docs' = [id \in DOMAIN docs |->
                        IF id \in old_sessions THEN NoDoc ELSE docs[id]]
        /\ db' = db
        /\ last' = Returned("cleanup_old_sessions",
                            [cleaned |-> Cardinality(old_sessions)],
                            [cutoff |-> cutoff, before |-> PassBefore(cutoff)])
        /\ UNCHANGED <<heap, current, clock, nextId, parked, lock, pc, effects>>

\* SessionManager.cleanup_old_sessions(cutoff): every selected session is
\* popped from the cache (pop(session_id, None)), its directory removed (if
\* it exists) and its row deleted (last.pre tells the cutoff and what the
\* pass before returned)
cleanup_old_sessions(cutoff) ==
    LET old_sessions == OldSessions(cutoff)
    IN  /\ cache' = [id \in DOMAIN cache |->
                         IF id \in old_sessions THEN 0 ELSE cache[id]]
        /\ docs' = [id \in DOMAIN docs |->
                        IF id \in old_sessions THEN NoDoc ELSE docs[id]]
        /\ db' = [id \in DOMAIN db |->
                      IF id \in old_sessions THEN NoRow ELSE db[id]]
        /\ last' = Returned("cleanup_old_sessions",
                            [cleaned |-> Cardinality(old_sessions)],
                            [cutoff |-> cutoff, before |-> PassBefore(cutoff)])
        /\ UNCHANGED <<heap, current, clock, nextId, parked, lock, pc, effects>>

\* one pass of the cleanup task (main.py:31-46)
cleanup_task == cleanup_old_sessions(clock - RetentionTicks)

\* datetime.now() moves on
Tick ==
    /\ clock < MaxClock
    /\ clock' = clock + 1
    /\ UNCHANGED <<heap, cache, docs, db, current, nextId, last, parked, lock, pc, effects>>

\* the process ends and a new one starts (session_manager = SessionManager()):
\* the cache is empty, no session is bound, the documents and the index stay
ProcessRestart ==
    /\ heap # <<>>
    /\ heap' = <<>>
    /\ cache' = [id \in DOMAIN cache |-> 0]
    /\ current' = 0
    /\ parked' = 0
    /\ last' = Returned("restart", EmptyDict, EmptyDict)
    /\ UNCHANGED <<docs, db, clock, nextId, lock, pc, effects>>

(* ------------------------------ specification -------------------------- *)

AddArgs ==
    [html : Htmls] \cup [html : Htmls, position : Indexes]
    \cup [html : {"A"}, layout : LayoutArgs]
UpdateArgs == [slide_index : Indexes, html : Htmls]
DeleteArgs == [slide_index : Indexes]
ReorderArgs == [from_index : Indexes, to_index : Indexes]
CreateArgs == [title : Titles]

Next ==
    \/ \E id \in Sids \cup {None}, cf \in ContextArgs, ic \in ContinuationArgs :
           run_agent_stream_begin(id, cf, ic)
    \/ \E a \in AgentSessionIds : run_agent_stream_end(a)
    \/ run_agent_stream_error
    \/ \E args \in CreateArgs : tool_create_presentation(args)
    \/ \E args \in AddArgs : tool_add_slide(args)
    \/ \E args \in UpdateArgs : tool_update_slide(args)
    \/ \E args \in DeleteArgs : tool_delete_slide(args)
    \/ \E args \in ReorderArgs : tool_reorder_slides(args)
    \/ tool_commit_edits

Spec == Init /\ [][Next]_vars

(* ------------------------------ stored sessions ------------------------ *)

\* the html of the slides of a stored deck, by position
StoredHtmls == <<"A", "B", "C", "D", "E">>

\* A session as an earlier process left it on disk: the session after
\* create_presentation, n ADDs with no position, commit_edits and the end of
\* the run (the edit ids of that process are -1, -2, ...).
StoredSession(id, n) ==
    LET edits == [i \in 1..n |->
                     PendingEdit(0 - i, i - 1, "ADD",
                                 [html |-> StoredHtmls[i], layout |-> "blank"],
                                 <<"Add slide at position", i>>)]
        done == CommitLoop(edits, 1, [slides |-> <<>>, applied_edits |-> <<>>,
                                      applied_count |-> 0])
    IN  [PresentationSession(id, 0) EXCEPT
            !.presentation = [Presentation("T") EXCEPT !.slides = done.slides],
            !.applied_edits = done.applied_edits,
            !.claude_session_id = "c1"]

\* the process starts over the document and the index row of such a session
InitStored ==
    /\ \E n \in 0..MaxStored :
           /\ docs = [id \in Sids |-> SessionToDict(StoredSession(id, n))]
           /\ db = [id \in Sids |-> IndexRow(StoredSession(id, n))]
    /\ heap = <<>>
    /\ cache = [id \in Sids |-> 0]
    /\ current = 0
    /\ clock = 0
    /\ nextId = 0
    /\ last = NoCall
    /\ parked = 0
    /\ lock = NoHolder
    /\ pc = NoProcesses
    /\ effects = NotCounted

\* what the run adds and updates (one html, so that the decks stay few)
StoredAddArgs == [html : {"B"}] \cup [html : {"B"}, position : Indexes]
StoredUpdateArgs == [slide_index : Indexes, html : {"B"}]

\* a run over a stored session: it is loaded and bound, edits are staged and
\* committed
NextStored ==
    \/ \E id \in Sids, cf \in ContextArgs, ic \in ContinuationArgs :
           run_agent_stream_begin(id, cf, ic)
    \/ \E args \in StoredAddArgs : tool_add_slide(args)
    \/ \E args \in StoredUpdateArgs : tool_update_slide(args)
    \/ \E args \in DeleteArgs : tool_delete_slide(args)
    \/ \E args \in ReorderArgs : tool_reorder_slides(args)
    \/ tool_commit_edits

SpecStored == InitStored /\ [][NextStored]_vars

\* PendingEdit.from_dict and the commit loop take a stored edit as it is:
\* any operation, index and params of the declared types (int, str, dict).
\* The edits a stored queue may hold that staging would not have written:
\* any index, and a layout value that is no SlideLayout.
ForeignIndexes == {0 - 1, 0, MaxIndex}
ForeignShapes ==
    [operation : {"ADD"}, slide_index : ForeignIndexes,
     params : [html : {"B"}, layout : {"blank", "bogus"}]]
    \cup [operation : {"UPDATE"}, slide_index : ForeignIndexes,
          params : [html : {"B"}]]
    \cup [operation : {"DELETE"}, slide_index : ForeignIndexes,
          params : {EmptyDict}]
    \cup [operation : {"REORDER"}, slide_index : ForeignIndexes,
          params : [to_index : ForeignIndexes]]

ForeignQueues ==
    UNION {[1..k -> ForeignShapes] : k \in 0..MaxForeign}

\* the queue of PendingEdit dicts of the shapes q (edit ids -11, -12, ...)
ForeignEdits(q) ==
    [i \in 1..Len(q) |->
        PendingEdit(0 - (10 + i), q[i].slide_index, q[i].operation, q[i].params,
                    "stored")]

\* the process starts over a document whose deck is a stored deck (or that
\* has no presentation) and whose queue is any queue of such edits
InitForeign ==
    /\ \E n \in 0..MaxStored, q \in ForeignQueues, p \in BOOLEAN :
           LET s == [StoredSession("s1", n) EXCEPT
                        !.pending_edits = ForeignEdits(q),
                        !.presentation = IF p THEN @ ELSE NoPresentation]
           IN  /\ p \/ n = 0
               /\ docs = [id \in Sids |-> SessionToDict(s)]
               /\ db = [id \in Sids |-> IndexRow(s)]
    /\ heap = <<>>
    /\ cache = [id \in Sids |-> 0]
    /\ current = 0
    /\ clock = 0
    /\ nextId = 0
    /\ last = NoCall
    /\ parked = 0
    /\ lock = NoHolder
    /\ pc = NoProcesses
    /\ effects = NotCounted

\* a run over such a session: it is loaded and bound, and its queue committed
NextForeign ==
    \/ \E id \in Sids, cf \in ContextArgs, ic \in ContinuationArgs :
           run_agent_stream_begin(id, cf, ic)
    \/ \E a \in AgentSessionIds : run_agent_stream_end(a)
    \/ tool_commit_edits

SpecForeign == InitForeign /\ [][NextForeign]_vars

(* ------------------------------ the session store ---------------------- *)

StoreSids == {"s1", "s2"}
Themes == {[primary |-> "red"]}
StoreAddArgs == [html : {"A"}, layout : {"title"}]

\* the process starts with an empty cache and no stored sessions
InitStore ==
    /\ heap = <<>>
    /\ cache = [id \in StoreSids |-> 0]
    /\ docs = [id \in StoreSids |-> NoDoc]
    /\ db = [id \in StoreSids |-> NoRow]
    /\ current = 0
    /\ clock = 0
    /\ nextId = 0
    /\ last = NoCall
    /\ parked = 0
    /\ lock = NoHolder
    /\ pc = NoProcesses
    /\ effects = NotCounted

\* runs that create, theme, stage and commit, session reads and restarts of
\* the process
NextStore ==
    \/ \E id \in StoreSids \cup {None}, cf \in ContextArgs, ic \in ContinuationArgs :
           run_agent_stream_begin(id, cf, ic)
    \/ \E a \in AgentSessionIds : run_agent_stream_end(a)
    \/ \E args \in CreateArgs : tool_create_presentation(args)
    \/ \E args \in StoreAddArgs : tool_add_slide(args)
    \/ \E args \in [theme : Themes] : tool_set_theme(args)
    \/ tool_commit_edits
    \/ \E id \in StoreSids : get_session(id)
    \/ ProcessRestart

SpecStore == InitStore /\ [][NextStore]_vars

\* runs that create a presentation and are saved at their end, session
\* reads, the passing of time, passes of the cleanup task and restarts
NextRetention ==
    \/ \E id \in StoreSids \cup {None}, cf \in ContextArgs, ic \in ContinuationArgs :
           run_agent_stream_begin(id, cf, ic)
    \/ \E a \in AgentSessionIds : run_agent_stream_end(a)
    \/ run_agent_stream_error
    \/ \E args \in CreateArgs : tool_create_presentation(args)
    \/ \E id \in StoreSids : get_session(id)
    \/ cleanup_task
    \/ Tick
    \/ ProcessRestart

SpecRetention == InitStore /\ [][NextRetention]_vars

\* the documents of session id that do not load: one that cannot be opened,
\* one that is no JSON, one that lacks a key from_dict reads with data[...],
\* and one whose slide has a layout value that is no SlideLayout
IncompleteDoc(id) ==
    LET d == SessionToDict(StoredSession(id, 1))
    IN  [k \in DOMAIN d \ {"created_at"} |-> d[k]]
UnknownLayoutDoc(id) ==
    [SessionToDict(StoredSession(id, 1)) EXCEPT
        !.presentation.slides[1].layout = "bogus"]
DamagedDocs(id) ==
    {Unreadable, Garbled, IncompleteDoc(id), UnknownLayoutDoc(id)}

StartDocs(id) ==
    {NoDoc, SessionToDict(StoredSession(id, 1))} \cup DamagedDocs(id)

\* the process starts over a sessions directory in which each session has no
\* document, a document of a stored deck, or a document that does not load
InitDamaged ==
    /\ docs \in [StoreSids -> UNION {StartDocs(id) : id \in StoreSids}]
    /\ \A id \in StoreSids : docs[id] \in StartDocs(id)
    /\ db = [id \in StoreSids |->
                 IF docs[id] = NoDoc THEN NoRow ELSE IndexRow(StoredSession(id, 1))]
    /\ heap = <<>>
    /\ cache = [id \in StoreSids |-> 0]
    /\ current = 0
    /\ clock = 0
    /\ nextId = 0
    /\ last = NoCall
    /\ parked = 0
    /\ lock = NoHolder
    /\ pc = NoProcesses
    /\ effects = NotCounted

\* session reads, and runs that start on such a session and save it at
\* their end
NextDamaged ==
    \/ \E id \in StoreSids : get_session(id)
    \/ \E id \in StoreSids, cf \in ContextArgs, ic \in ContinuationArgs :
           run_agent_stream_begin(id, cf, ic)
    \/ \E a \in AgentSessionIds : run_agent_stream_end(a)
    \/ ProcessRestart

SpecDamaged == InitDamaged /\ [][NextDamaged]_vars

(* ------------------------------ the slide patch ------------------------ *)

\* raise HTTPException(status_code, detail)
HTTPException(status_code, detail) ==
    [status_code |-> status_code, detail |-> detail]

\* the request is refused with ret; load_session may have cached the session
PatchRefused(got, ret, args) ==
    /\ heap' = got.heap
    /\ cache' = got.cache
    /\ last' = Returned("update_slide_content", ret, args)
    /\ UNCHANGED <<docs, db, current, clock, nextId, parked, lock, pc, effects>>

\* a faulty update_slide_content: the session is not saved
update_slide_contentNoSave(session_id, slide_index, html) ==
    LET got == load_session(session_id)
        o == got.session
        args == [session_id |-> session_id, slide_index |-> slide_index,
                 html |-> html]
    IN  /\ got.heap = heap \/ Len(heap) < ObjLimit
        /\ IF o = 0
           THEN PatchRefused(got, HTTPException(404, "Session not found"), args)
           ELSE IF got.heap[o].presentation = NoPresentation
           THEN PatchRefused(got, HTTPException(400, "No presentation in session"), args)
           ELSE IF slide_index < 0
                   \/ slide_index >= Len(got.heap[o].presentation.slides)
           THEN PatchRefused(got, HTTPException(400, "Invalid slide index"), args)
           ELSE /\ heap' = [got.heap EXCEPT
                                ![o].presentation.slides[slide_index + 1].html = html]
                /\ cache' = got.cache
                /\ last' = Returned("update_slide_content",
                                    [success |-> TRUE, slide_index |-> slide_index],
                                    args)
                /\ UNCHANGED <<docs, db, current, clock, nextId, parked, lock, pc, effects>>

\* PATCH /session/{session_id}/slides/{slide_index} (main.py:247-269):
\* load_session, the three checks, the html of the slide replaced, and
\* save_session (the stamp, the cache entry, the document, the index row);
\* last.pre tells the arguments
update_slide_content(session_id, slide_index, html) ==
    LET got == load_session(session_id)
        o == got.session
        args == [session_id |-> session_id, slide_index |-> slide_index,
                 html |-> html]
    IN  /\ got.heap = heap \/ Len(heap) < ObjLimit
        /\ IF o = 0
           THEN PatchRefused(got, HTTPException(404, "Session not found"), args)
           ELSE IF got.heap[o].presentation = NoPresentation
           THEN PatchRefused(got, HTTPException(400, "No presentation in session"), args)
           ELSE IF slide_index < 0
                   \/ slide_index >= Len(got.heap[o].presentation.slides)
           THEN PatchRefused(got, HTTPException(400, "Invalid slide index"), args)
           ELSE LET stamped ==
                        [got.heap[o] EXCEPT
                            !.presentation.slides[slide_index + 1].html = html,
                            !.updated_at = clock]
                IN  /\ heap' = [got.heap EXCEPT ![o] = stamped]
                    /\ cache' = [got.cache EXCEPT ![stamped.session_id] = o]
                    /\ docs' = [docs EXCEPT ![stamped.session_id] =
                                    SessionToDict(stamped)]
                    /\ db' = [db EXCEPT ![stamped.session_id] = IndexRow(stamped)]
                    /\ last' = Returned("update_slide_content",
                                        [success |-> TRUE,
                                         slide_index |-> slide_index], args)
                    /\ UNCHANGED <<current, clock, nextId, parked, lock, pc, effects>>

\* the process starts over the document of a stored deck for one session
\* and none for the other
InitPatch ==
    /\ \E n \in 0..MaxStored :
           /\ docs = [id \in StoreSids |->
                          IF id = "s1" THEN SessionToDict(StoredSession(id, n))
                          ELSE NoDoc]
           /\ db = [id \in StoreSids |->
                        IF id = "s1" THEN IndexRow(StoredSession(id, n))
                        ELSE NoRow]
    /\ heap = <<>>
    /\ cache = [id \in StoreSids |-> 0]
    /\ current = 0
    /\ clock = 0
    /\ nextId = 0
    /\ last = NoCall
    /\ parked = 0
    /\ lock = NoHolder
    /\ pc = NoProcesses
    /\ effects = NotCounted

\* patches of slides, runs that start on a session (and construct one that
\* has no presentation), the passing of time and restarts
NextPatch ==
    \/ \E id \in StoreSids, i \in Indexes, html \in {"B", "C"} :
           update_slide_content(id, i, html)
    \/ \E id \in StoreSids, cf \in ContextArgs, ic \in ContinuationArgs :
           run_agent_stream_begin(id, cf, ic)
    \/ run_agent_stream_error
    \/ Tick
    \/ ProcessRestart

SpecPatch == InitPatch /\ [][NextPatch]_vars

(* ------------------------------ soft reset ---------------------------- *)

\* a faulty soft_reset: it does what PresentationSession.reset does
soft_resetClearsAll ==
    /\ Bound
    /\ heap' = [heap EXCEPT ![current].presentation = NoPresentation,
                            ![current].pending_edits = <<>>,
                            ![current].applied_edits = <<>>,
                            ![current].context_files = <<>>,
                            ![current].style_template = None,
                            ![current].is_continuation = FALSE,
                            ![current].updated_at = clock]
    /\ last' = Returned("soft_reset", EmptyDict, Session)
    /\ UNCHANGED <<cache, docs, db, current, clock, nextId, parked, lock, pc, effects>>

\* PresentationSession.soft_reset (session.py:56-59) on the bound session:
\* the queue is emptied and updated_at stamped
soft_reset ==
    /\ Bound
    /\ heap' = [heap EXCEPT ![current].pending_edits = <<>>,
                            ![current].updated_at = clock]
    /\ last' = Returned("soft_reset", EmptyDict, Session)
    /\ UNCHANGED <<cache, docs, db, current, clock, nextId, parked, lock, pc, effects>>

\* a run that creates, stages, commits and resets its queue, while time
\* passes
NextReset ==
    \/ \E id \in Sids, cf \in ContextArgs, ic \in ContinuationArgs :
           run_agent_stream_begin(id, cf, ic)
    \/ \E args \in CreateArgs : tool_create_presentation(args)
    \/ \E args \in StoredAddArgs : tool_add_slide(args)
    \/ \E args \in DeleteArgs : tool_delete_slide(args)
    \/ tool_commit_edits
    \/ soft_reset
    \/ Tick

SpecReset == Init /\ [][NextReset]_vars

(* ------------------------------ overlapping runs ---------------------- *)

\* Two agent_stream requests in flight on one event loop.  Each has its own
\* value of the ContextVar; a request runs until it awaits (between two tool
\* calls), and a tool call, which awaits nothing, runs whole.

\* the process starts with an empty store, and the edits that change a
\* slide list are listed
InitOverlap ==
    /\ heap = <<>>
    /\ cache = [id \in Sids |-> 0]
    /\ docs = [id \in Sids |-> NoDoc]
    /\ db = [id \in Sids |-> NoRow]
    /\ current = 0
    /\ clock = 0
    /\ nextId = 0
    /\ last = NoCall
    /\ parked = 0
    /\ lock = NoHolder
    /\ pc = NoProcesses
    /\ effects = [on |-> TRUE, ids |-> <<>>]

\* the running request awaits and the event loop resumes the other one (or
\* is free for a new request)
Switch ==
    /\ current # parked
    /\ current' = parked
    /\ parked' = current
    /\ UNCHANGED <<heap, cache, docs, db, clock, nextId, last, lock, pc, effects>>

OverlapAddArgs == [html : {"A"}] \cup [html : {"A"}, position : {0}]
OverlapDeleteArgs == [slide_index : {0}]

\* two runs on one session that stage and commit, are saved at their end
\* and are loaded again after a restart of the process
NextOverlap ==
    \/ \E id \in Sids, cf \in ContextArgs, ic \in ContinuationArgs :
           run_agent_stream_begin(id, cf, ic)
    \/ \E a \in AgentSessionIds : run_agent_stream_end(a)
    \/ \E args \in CreateArgs : tool_create_presentation(args)
    \/ \E args \in OverlapAddArgs : tool_add_slide(args)
    \/ \E args \in OverlapDeleteArgs : tool_delete_slide(args)
    \/ tool_commit_edits
    \/ Switch
    \/ ProcessRestart

SpecOverlap == InitOverlap /\ [][NextOverlap]_vars

(* ------------------------------ the cleanup task ----------------------- *)

\* The cleanup task and lifespan are coroutines of one event loop: a
\* coroutine runs until it awaits, and a cancellation reaches a task only
\* where it awaits.  pc is
\*   task          where the cleanup task is: "created" (create_task, not yet
\*                 run), "pass" (inside SessionManager.cleanup_old_sessions),
\*                 "sleep" (in asyncio.sleep) or "cancelled"
\*   old_sessions  the sessions the pass in progress selected
\*   todo          those of them the loop has not finished
\*   step          the next statement of the loop body
\*   cleaned       the count of the pass in progress
\*   lifespan      "serving" (at the yield), "awaiting" (cancel() called, in
\*                 await cleanup_task) or "stopped"
\*   from          where the task was when CancelledError reached it
\*   error         what the shutdown raised to its caller

\* a faulty AwaitPoints: the task also gives way inside a pass
AwaitPointsInPass == {"created", "sleep", "pass"}

\* where the cleanup task gives way to other coroutines: before its first
\* step and in await asyncio.sleep(3600), which stands outside the pass
AwaitPoints == {"created", "sleep"}

\* what except asyncio.CancelledError: pass lets through
LifespanRaises(exception) ==
    IF exception = "CancelledError" THEN None ELSE exception

\* the process starts with an empty store; lifespan has created the task
InitSweeper ==
    /\ heap = <<>>
    /\ cache = [id \in StoreSids |-> 0]
    /\ docs = [id \in StoreSids |-> NoDoc]
    /\ db = [id \in StoreSids |-> NoRow]
    /\ current = 0
    /\ clock = 0
    /\ nextId = 0
    /\ last = NoCall
    /\ parked = 0
    /\ lock = NoHolder
    /\ pc = [task |-> "created", old_sessions |-> {}, todo |-> {},
             step |-> "pop", session_id |-> None, cleaned |-> 0,
             lifespan |-> "serving", from |-> None, error |-> None]
    /\ effects = NotCounted

\* a step of a request or of the clock: it runs while the app serves and the
\* cleanup task gives way
WhileSuspended(step) ==
    /\ pc.lifespan = "serving"
    /\ pc.task \in AwaitPoints
    /\ step

\* the task wakes and enters a pass: cutoff and the SELECT (main.py:38-39,
\* session.py:197-204)
task_select ==
    /\ pc.lifespan = "serving"
    /\ pc.task \in {"created", "sleep"}
    /\ LET old_sessions == OldSessions(clock - RetentionTicks)
       IN  pc' = [pc EXCEPT !.task = "pass", !.old_sessions = old_sessions,
                            !.todo = old_sessions, !.step = "pop",
                            !.cleaned = 0]
    /\ UNCHANGED <<heap, cache, docs, db, current, clock, nextId, last, parked, lock, effects>>

\* a faulty task_pop: the row is deleted before the directory is removed
task_popDeletesRow ==
    /\ pc.task = "pass" /\ pc.step = "pop"
    /\ \E session_id \in pc.todo :
           /\ cache' = [cache EXCEPT ![session_id] = 0]
           /\ db' = [db EXCEPT ![session_id] = NoRow]
           /\ pc' = [pc EXCEPT !.session_id = session_id, !.step = "rmtree"]
    /\ UNCHANGED <<heap, docs, current, clock, nextId, last, parked, lock, effects>>

\* self._sessions.pop(session_id, None) for the next session of the loop
task_pop ==
    /\ pc.task = "pass" /\ pc.step = "pop"
    /\ \E session_id \in pc.todo :
           /\ cache' = [cache EXCEPT ![session_id] = 0]
           /\ pc' = [pc EXCEPT !.session_id = session_id, !.step = "rmtree"]
    /\ UNCHANGED <<heap, docs, db, current, clock, nextId, last, parked, lock, effects>>

\* if session_dir.exists(): shutil.rmtree(session_dir)
task_rmtree ==
    /\ pc.task = "pass" /\ pc.step = "rmtree"
    /\ docs' = [docs EXCEPT ![pc.session_id] = NoDoc]
    /\ pc' = [pc EXCEPT !.step = "delete"]
    /\ UNCHANGED <<heap, cache, db, current, clock, nextId, last, parked, lock, effects>>

\* DELETE FROM sessions WHERE session_id = ?; cleaned += 1
task_delete ==
    /\ pc.task = "pass" /\ pc.step = "delete"
    /\ db' = [db EXCEPT ![pc.session_id] = NoRow]
    /\ pc' = [pc EXCEPT !.todo = @ \ {pc.session_id}, !.session_id = None,
                        !.step = "pop", !.cleaned = @ + 1]
    /\ UNCHANGED <<heap, cache, docs, current, clock, nextId, last, parked, lock, effects>>

\* the loop is over: return cleaned, and the task awaits asyncio.sleep
task_return ==
    /\ pc.task = "pass" /\ pc.step = "pop" /\ pc.todo = {}
    /\ pc' = [pc EXCEPT !.task = "sleep", !.old_sessions = {}, !.cleaned = 0]
    /\ last' = Returned("cleanup_pass", [cleaned |-> pc.cleaned], EmptyDict)
    /\ UNCHANGED <<heap, cache, docs, db, current, clock, nextId, parked, lock, effects>>

\* shutdown (main.py:62-65): cleanup_task.cancel(), then await cleanup_task
lifespan_cancel ==
    /\ pc.lifespan = "serving"
    /\ pc.task \in AwaitPoints
    /\ pc' = [pc EXCEPT !.lifespan = "awaiting"]
    /\ UNCHANGED <<heap, cache, docs, db, current, clock, nextId, last, parked, lock, effects>>

\* CancelledError reaches the task where it awaits; nothing in the task
\* catches it (the await stands outside the try), and the task ends
task_cancelled ==
    /\ pc.lifespan = "awaiting"
    /\ pc.task \in AwaitPoints
    /\ pc' = [pc EXCEPT !.task = "cancelled", !.from = pc.task]
    /\ UNCHANGED <<heap, cache, docs, db, current, clock, nextId, last, parked, lock, effects>>

\* await cleanup_task raises the task's CancelledError in lifespan
\* (main.py:65-67), and the shutdown is over
lifespan_stopped ==
    /\ pc.lifespan = "awaiting"
    /\ pc.task = "cancelled"
    /\ pc' = [pc EXCEPT !.lifespan = "stopped",
                        !.error = LifespanRaises("CancelledError")]
    /\ UNCHANGED <<heap, cache, docs, db, current, clock, nextId, last, parked, lock, effects>>

\* runs that are saved at their end and the passing of time, between the
\* steps of the cleanup task and the shutdown
NextSweeper ==
    \/ WhileSuspended(\E id \in StoreSids, cf \in ContextArgs, ic \in ContinuationArgs :
                          run_agent_stream_begin(id, cf, ic))
    \/ WhileSuspended(\E a \in AgentSessionIds : run_agent_stream_end(a))
    \/ WhileSuspended(Tick)
    \/ task_select
    \/ task_pop
    \/ task_rmtree
    \/ task_delete
    \/ task_return
    \/ lifespan_cancel
    \/ task_cancelled
    \/ lifespan_stopped

SpecSweeper == InitSweeper /\ [][NextSweeper]_vars

(* ------------------------------ the cleanup loop with faults ----------- *)

\* The while True loop of the cleanup task when a statement of a pass can
\* raise (the SELECT, the rmtree, the DELETE).  pc has one more field,
\* faults: the passes that have raised so far.

\* the storage faults of one behaviour
MaxFaults == 2

\* the process starts with an empty store; lifespan has created the task
InitFaulty ==
    /\ heap = <<>>
    /\ cache = [id \in StoreSids |-> 0]
    /\ docs = [id \in StoreSids |-> NoDoc]
    /\ db = [id \in StoreSids |-> NoRow]
    /\ current = 0
    /\ clock = 0
    /\ nextId = 0
    /\ last = NoCall
    /\ parked = 0
    /\ lock = NoHolder
    /\ pc = [task |-> "created", old_sessions |-> {}, todo |-> {},
             step |-> "pop", session_id |-> None, cleaned |-> 0,
             lifespan |-> "serving", from |-> None, error |-> None,
             faults |-> 0]
    /\ effects = NotCounted

\* a faulty task_logged: the exception of a pass ends the task
task_loggedEndsTask ==
    /\ pc.task = "pass"
    /\ pc.faults < MaxFaults
    /\ pc' = [pc EXCEPT !.task = "ended", !.old_sessions = {}, !.todo = {},
                        !.step = "pop", !.session_id = None, !.cleaned = 0,
                        !.faults = @ + 1]
    /\ last' = Returned("cleanup_pass", Error("Error in session cleanup"), EmptyDict)
    /\ UNCHANGED <<heap, cache, docs, db, current, clock, nextId, parked, lock, effects>>

\* the statement of the pass that is next raises: the with block releases
\* the lock, except Exception logs the error (main.py:42-43), and the task
\* goes on to await asyncio.sleep (main.py:46)
task_logged ==
    /\ pc.task = "pass"
    /\ pc.faults < MaxFaults
    /\ pc' = [pc EXCEPT !.task = "sleep", !.old_sessions = {}, !.todo = {},
                        !.step = "pop", !.session_id = None, !.cleaned = 0,
                        !.faults = @ + 1]
    /\ last' = Returned("cleanup_pass", Error("Error in session cleanup"), EmptyDict)
    /\ UNCHANGED <<heap, cache, docs, db, current, clock, nextId, parked, lock, effects>>

\* runs that are saved at their end, the passing of time, the steps of the
\* cleanup task, passes that raise, and the shutdown
NextFaulty ==
    \/ WhileSuspended(\E id \in StoreSids, cf \in ContextArgs, ic \in ContinuationArgs :
                          run_agent_stream_begin(id, cf, ic))
    \/ WhileSuspended(\E a \in AgentSessionIds : run_agent_stream_end(a))
    \/ WhileSuspended(Tick)
    \/ task_select
    \/ task_pop
    \/ task_rmtree
    \/ task_delete
    \/ task_return
    \/ task_logged
    \/ lifespan_cancel
    \/ task_cancelled
    \/ lifespan_stopped

\* the event loop resumes a task whose sleep is over, and a pass, which
\* awaits nothing, runs to its return or to its exception
SpecFaulty ==
    /\ InitFaulty
    /\ [][NextFaulty]_vars
    /\ WF_vars(task_select)
    /\ WF_vars(task_pop)
    /\ WF_vars(task_rmtree)
    /\ WF_vars(task_delete)
    /\ WF_vars(task_return)

(* ------------------------------ the store lock ------------------------ *)

\* Callers of the session manager as threads: each of the four methods takes
\* self._lock for its whole body (with self._lock:), and inside it the
\* statements that read and those that write are steps of their own.
\* pc[c] is, for caller c,
\*   op, session_id  the method called and its argument
\*   at              "idle", "acquire" (waiting at with self._lock), "read",
\*                   "write" or "release" (about to leave the with block)
\*   session         the session object the caller holds (what
\*                   get_or_create_session or load_session last returned)
\*   locals          what the method has read so far

Callers == {1, 2}
NoObject == [none |-> "object"]
NoLocals == [how |-> None, new |-> NoObject, old_sessions |-> {}, cleaned |-> 0]
\* the session id the callers ask for
LockSids == {"s1"}

\* the process starts with an empty store and no caller in a method
InitLock ==
    /\ heap = <<>>
    /\ cache = [id \in StoreSids |-> 0]
    /\ docs = [id \in StoreSids |-> NoDoc]
    /\ db = [id \in StoreSids |-> NoRow]
    /\ current = 0
    /\ clock = 0
    /\ nextId = 0
    /\ last = NoCall
    /\ parked = 0
    /\ lock = NoHolder
    /\ pc = [c \in Callers |->
                 [op |-> None, at |-> "idle", session_id |-> None,
                  session |-> 0, locals |-> NoLocals]]
    /\ effects = NotCounted

\* caller c moves on: pc[c] becomes to, the other callers stay
Goto(c, to) == pc' = [pc EXCEPT ![c] = to]

\* caller c calls a method of the session manager
call(c, op, session_id) ==
    /\ pc[c].at = "idle"
    /\ Goto(c, [pc[c] EXCEPT !.op = op, !.at = "acquire",
                             !.session_id = session_id])
    /\ UNCHANGED <<heap, cache, docs, db, current, clock, nextId, last, parked, lock, effects>>

\* ... save_session(session) with the session object it holds
call_save_session(c) ==
    /\ pc[c].session # 0
    /\ call(c, "save_session", heap[pc[c].session].session_id)

\* threading.Lock: free when no caller holds it
LockFree == lock = NoHolder

\* with self._lock: the caller enters when the lock is free
acquire(c) ==
    /\ pc[c].at = "acquire"
    /\ LockFree
    /\ lock' = c
    /\ Goto(c, [pc[c] EXCEPT !.at = "read"])
    /\ UNCHANGED <<heap, cache, docs, db, current, clock, nextId, last, parked, effects>>

\* get_or_create_session, session.py:122-133: the cache is asked, then the
\* document, then a session is constructed
get_or_create_session_read(c) ==
    LET session_id == pc[c].session_id
    IN  /\ pc[c].at = "read" /\ pc[c].op = "get_or_create_session"
        /\ IF cache[session_id] # 0
           THEN Goto(c, [pc[c] EXCEPT !.at = "release",
                                      !.session = cache[session_id]])
           ELSE IF Loadable(session_id)
           THEN Goto(c, [pc[c] EXCEPT !.at = "write", !.locals.how = "loaded",
                             !.locals.new = SessionFromDict(docs[session_id])])
           ELSE Goto(c, [pc[c] EXCEPT !.at = "write", !.locals.how = "created",
                             !.locals.new = PresentationSession(session_id, clock)])
        /\ UNCHANGED <<heap, cache, docs, db, current, clock, nextId, last, parked, lock, effects>>

\* load_session, session.py:149-152: the cache is asked, then the document
load_session_read(c) ==
    LET session_id == pc[c].session_id
    IN  /\ pc[c].at = "read" /\ pc[c].op = "load_session"
        /\ IF cache[session_id] # 0
           THEN Goto(c, [pc[c] EXCEPT !.at = "release",
                                      !.session = cache[session_id]])
           ELSE IF Loadable(session_id)
           THEN Goto(c, [pc[c] EXCEPT !.at = "write", !.locals.how = "loaded",
                             !.locals.new = SessionFromDict(docs[session_id])])
           ELSE Goto(c, [pc[c] EXCEPT !.at = "release", !.session = 0])
        /\ UNCHANGED <<heap, cache, docs, db, current, clock, nextId, last, parked, lock, effects>>

\* self._sessions[session_id] = session, and self._save_to_db(session) for
\* a session that was constructed (session.py:129, 134-135, 154)
store_write(c) ==
    LET session_id == pc[c].session_id
        o == Len(heap) + 1
    IN  /\ pc[c].at = "write"
        /\ pc[c].op \in {"get_or_create_session", "load_session"}
        /\ Len(heap) < ObjLimit
        /\ heap' = Append(heap, pc[c].locals.new)
        /\ cache' = [cache EXCEPT ![session_id] = o]
        /\ db' = IF pc[c].locals.how = "created"
                 THEN [db EXCEPT ![session_id] = IndexRow(pc[c].locals.new)]
                 ELSE db
        /\ Goto(c, [pc[c] EXCEPT !.at = "release", !.session = o])
        /\ UNCHANGED <<docs, current, clock, nextId, last, parked, lock, effects>>

\* save_session, session.py:141-142: the stamp and the cache entry
save_session_stamp(c) ==
    LET o == pc[c].session
    IN  /\ pc[c].at = "read" /\ pc[c].op = "save_session"
        /\ heap' = [heap EXCEPT ![o].updated_at = clock]
        /\ cache' = [cache EXCEPT ![pc[c].session_id] = o]
        /\ Goto(c, [pc[c] EXCEPT !.at = "write"])
        /\ UNCHANGED <<docs, db, current, clock, nextId, last, parked, lock, effects>>

\* save_session, session.py:143-144: the document and the index row
save_session_write(c) ==
    LET session == heap[pc[c].session]
    IN  /\ pc[c].at = "write" /\ pc[c].op = "save_session"
        /\ docs' = [docs EXCEPT ![pc[c].session_id] = SessionToDict(session)]
        /\ db' = [db EXCEPT ![pc[c].session_id] = IndexRow(session)]
        /\ Goto(c, [pc[c] EXCEPT !.at = "release"])
        /\ UNCHANGED <<heap, cache, current, clock, nextId, last, parked, lock, effects>>

\* cleanup_old_sessions, session.py:199-204: the SELECT, with the cutoff of
\* the cleanup task
cleanup_select(c) ==
    /\ pc[c].at = "read" /\ pc[c].op = "cleanup_old_sessions"
    /\ Goto(c, [pc[c] EXCEPT !.at = "write",
                    !.locals.old_sessions = OldSessions(clock - RetentionTicks)])
    /\ UNCHANGED <<heap, cache, docs, db, current, clock, nextId, last, parked, lock, effects>>

\* cleanup_old_sessions, session.py:206-224: the loop over the selection
cleanup_remove(c) ==
    LET old_sessions == pc[c].locals.old_sessions
    IN  /\ pc[c].at = "write" /\ pc[c].op = "cleanup_old_sessions"
        /\ cache' = [id \in DOMAIN cache |->
                         IF id \in old_sessions THEN 0 ELSE cache[id]]
        /\ docs' = [id \in DOMAIN docs |->
                        IF id \in old_sessions THEN NoDoc ELSE docs[id]]
        /\ db' = [id \in DOMAIN db |->
                      IF id \in old_sessions THEN NoRow ELSE db[id]]
        /\ Goto(c, [pc[c] EXCEPT !.at = "release",
                                 !.locals.cleaned = Cardinality(old_sessions)])
        /\ UNCHANGED <<heap, current, clock, nextId, last, parked, lock, effects>>

\* what the method of caller c returns
StoreReturn(c) ==
    CASE pc[c].op \in {"get_or_create_session", "load_session"} ->
             [session |-> pc[c].session]
      [] pc[c].op = "cleanup_old_sessions" ->
             [cleaned |-> pc[c].locals.cleaned]
      [] OTHER -> EmptyDict

\* the with block is left and the method returns (last tells the caller
\* and the argument)
release(c) ==
    /\ pc[c].at = "release"
    /\ lock' = NoHolder
    /\ Goto(c, [pc[c] EXCEPT !.at = "idle", !.op = None, !.session_id = None,
                             !.locals = NoLocals])
    /\ last' = Returned(pc[c].op, StoreReturn(c),
                        [caller |-> c, session_id |-> pc[c].session_id])
    /\ UNCHANGED <<heap, cache, docs, db, current, clock, nextId, parked, effects>>

\* callers that call the four methods in any order and at any pace, and
\* the passing of time
NextLock ==
    \/ \E c \in Callers, id \in LockSids : call(c, "get_or_create_session", id)
    \/ \E c \in Callers, id \in LockSids : call(c, "load_session", id)
    \/ \E c \in Callers : call_save_session(c)
    \/ \E c \in Callers : call(c, "cleanup_old_sessions", None)
    \/ \E c \in Callers : acquire(c)
    \/ \E c \in Callers : get_or_create_session_read(c)
    \/ \E c \in Callers : load_session_read(c)
    \/ \E c \in Callers : store_write(c)
    \/ \E c \in Callers : save_session_stamp(c)
    \/ \E c \in Callers : save_session_write(c)
    \/ \E c \in Callers : cleanup_select(c)
    \/ \E c \in Callers : cleanup_remove(c)
    \/ \E c \in Callers : release(c)
    \/ Tick

SpecLock == InitLock /\ [][NextLock]_vars

(* ------------------------------ store calls that raise ---------------- *)

\* The callers of the store lock section, each making a bounded number of
\* calls, with the storage statements inside the with block able to raise.
\* pc[c] has one more field, calls: the calls caller c has made.

\* the calls of one caller
MaxCalls == 2

\* the process starts with an empty store and no caller in a method
InitLockFair ==
    /\ heap = <<>>
    /\ cache = [id \in StoreSids |-> 0]
    /\ docs = [id \in StoreSids |-> NoDoc]
    /\ db = [id \in StoreSids |-> NoRow]
    /\ current = 0
    /\ clock = 0
    /\ nextId = 0
    /\ last = NoCall
    /\ parked = 0
    /\ lock = NoHolder
    /\ pc = [c \in Callers |->
                 [op |-> None, at |-> "idle", session_id |-> None,
                  session |-> 0, locals |-> NoLocals, calls |-> 0]]
    /\ effects = NotCounted

\* the calls in flight that may construct a session object
Constructing ==
    Cardinality({c \in Callers :
                    /\ pc[c].at # "idle"
                    /\ pc[c].op \in {"get_or_create_session", "load_session"}})

\* caller c calls a method of the session manager, while it has calls left
\* (and, for a method that may construct a session object, while the heap
\* has room for it)
store_call(c, op, session_id) ==
    /\ pc[c].at = "idle"
    /\ pc[c].calls < MaxCalls
    /\ op \in {"get_or_create_session", "load_session"}
           => Len(heap) + Constructing < ObjLimit
    /\ op = "save_session"
           => pc[c].session # 0 /\ session_id = heap[pc[c].session].session_id
    /\ Goto(c, [pc[c] EXCEPT !.op = op, !.at = "acquire",
                             !.session_id = session_id, !.calls = @ + 1])
    /\ UNCHANGED <<heap, cache, docs, db, current, clock, nextId, last, parked, lock, effects>>

\* caller c is at a storage statement that can raise: the SELECT or a
\* statement of the loop of cleanup_old_sessions (session.py:199-222), the
\* first write of save_session (session.py:143), or the _save_to_db of a
\* session get_or_create_session has constructed and cached
\* (session.py:134-135)
CanRaise(c) ==
    \/ pc[c].at = "write" /\ pc[c].op \in {"save_session", "cleanup_old_sessions"}
    \/ pc[c].at = "read" /\ pc[c].op = "cleanup_old_sessions"
    \/ /\ pc[c].at = "write" /\ pc[c].op = "get_or_create_session"
       /\ pc[c].locals.how = "created"

\* what the method has done when the statement raises: the constructed
\* session is cached, and nothing else is written
BeforeRaise(c) ==
    IF pc[c].op = "get_or_create_session"
    THEN /\ heap' = Append(heap, pc[c].locals.new)
         /\ cache' = [cache EXCEPT ![pc[c].session_id] = Len(heap) + 1]
    ELSE /\ heap' = heap
         /\ cache' = cache

\* a faulty store_raises: the lock is not released when the call raises
store_raisesKeepsLock(c) ==
    /\ CanRaise(c)
    /\ BeforeRaise(c)
    /\ lock' = lock
    /\ Goto(c, [pc[c] EXCEPT !.at = "idle", !.op = None, !.session_id = None,
                             !.locals = NoLocals])
    /\ last' = Returned(pc[c].op, [raised |-> "OperationalError"],
                        [caller |-> c, session_id |-> pc[c].session_id])
    /\ UNCHANGED <<docs, db, current, clock, nextId, parked, effects>>

\* a storage statement inside the with block raises: the with block
\* releases the lock as the exception leaves it, and the caller gets the
\* exception
store_raises(c) ==
    /\ CanRaise(c)
    /\ BeforeRaise(c)
    /\ lock' = NoHolder
    /\ Goto(c, [pc[c] EXCEPT !.at = "idle", !.op = None, !.session_id = None,
                             !.locals = NoLocals])
    /\ last' = Returned(pc[c].op, [raised |-> "OperationalError"],
                        [caller |-> c, session_id |-> pc[c].session_id])
    /\ UNCHANGED <<docs, db, current, clock, nextId, parked, effects>>

\* the steps of caller c inside a method
StoreStep(c) ==
    \/ acquire(c)
    \/ get_or_create_session_read(c)
    \/ load_session_read(c)
    \/ store_write(c)
    \/ save_session_stamp(c)
    \/ save_session_write(c)
    \/ cleanup_select(c)
    \/ cleanup_remove(c)
    \/ release(c)

\* callers that call the four methods in any order and at any pace, calls
\* that raise, and the passing of time
NextLockFair ==
    \/ \E c \in Callers, id \in LockSids : store_call(c, "get_or_create_session", id)
    \/ \E c \in Callers, id \in LockSids : store_call(c, "load_session", id)
    \/ \E c \in Callers, id \in LockSids : store_call(c, "save_session", id)
    \/ \E c \in Callers : store_call(c, "cleanup_old_sessions", None)
    \/ \E c \in Callers : StoreStep(c)
    \/ \E c \in Callers : store_raises(c)
    \/ Tick

\* every thread that can take a step of its call in the end takes one (the
\* callers need not call, and storage need not raise)
SpecLockFair ==
    /\ InitLockFair
    /\ [][NextLockFair]_vars
    /\ \A c \in Callers : WF_vars(StoreStep(c))

(* ------------------------------ a crash between two writes ------------ *)

\* The cleanup task and the save at the end of a run with the writes of
\* each as steps of their own, and a crash of the process at any of them.
\* pc is that of the cleanup task, and save: the session object whose
\* document save_session has written and whose index row it has not (0 when
\* no save is under way).

SweeperStart ==
    [task |-> "created", old_sessions |-> {}, todo |-> {}, step |-> "pop",
     session_id |-> None, cleaned |-> 0, lifespan |-> "serving",
     from |-> None, error |-> None, save |-> 0]

\* the process starts with an empty store; lifespan has created the task
InitCrash ==
    /\ heap = <<>>
    /\ cache = [id \in StoreSids |-> 0]
    /\ docs = [id \in StoreSids |-> NoDoc]
    /\ db = [id \in StoreSids |-> NoRow]
    /\ current = 0
    /\ clock = 0
    /\ nextId = 0
    /\ last = NoCall
    /\ parked = 0
    /\ lock = NoHolder
    /\ pc = SweeperStart
    /\ effects = NotCounted

\* a step that starts where no save is under way and the cleanup task
\* gives way (save_session and a pass await nothing)
BetweenWrites(step) ==
    /\ pc.save = 0
    /\ pc.lifespan = "serving"
    /\ pc.task \in AwaitPoints
    /\ step

\* the end of a run up to the first write of save_session (agent.py:895-900,
\* session.py:141-143): the session is unbound, takes the conversation
\* handle, is stamped and cached, and _save_to_disk writes its document
save_to_disk(agent_session_id) ==
    /\ current # 0
    /\ LET stamped == [Session EXCEPT !.claude_session_id = agent_session_id,
                                      !.updated_at = clock]
       IN  /\ heap' = [heap EXCEPT ![current] = stamped]
           /\ cache' = [cache EXCEPT ![stamped.session_id] = current]
           /\ docs' = [docs EXCEPT ![stamped.session_id] = SessionToDict(stamped)]
    /\ current' = 0
    /\ pc' = [pc EXCEPT !.save = current]
    /\ UNCHANGED <<db, clock, nextId, last, parked, lock, effects>>

\* the second write of save_session (session.py:144): _save_to_db writes
\* the index row, and the run is over
save_to_db ==
    /\ pc.save # 0
    /\ db' = [db EXCEPT ![heap[pc.save].session_id] = IndexRow(heap[pc.save])]
    /\ pc' = [pc EXCEPT !.save = 0]
    /\ last' = Returned("run_agent_stream_end", [success |-> TRUE], EmptyDict)
    /\ UNCHANGED <<heap, cache, docs, current, clock, nextId, parked, lock, effects>>

\* the process dies and a new one starts: the cache and the session objects
\* are gone, the cleanup task is created anew, the documents and the index
\* stay as the writes done so far left them (last.pre tells where the pass
\* and the save were)
crash ==
    /\ heap # <<>> \/ pc.task = "pass"
    /\ heap' = <<>>
    /\ cache' = [id \in DOMAIN cache |-> 0]
    /\ current' = 0
    /\ parked' = 0
    /\ pc' = SweeperStart
    /\ last' = Returned("crash", EmptyDict,
                        [task |-> pc.task, step |-> pc.step,
                         session_id |-> pc.session_id,
                         old_sessions |-> pc.old_sessions,
                         saving |-> IF pc.save = 0 THEN None
                                    ELSE heap[pc.save].session_id])
    /\ UNCHANGED <<docs, db, clock, nextId, lock, effects>>

\* runs that are saved at their end, the passing of time and passes of the
\* cleanup task, write by write, and crashes
NextCrash ==
    \/ BetweenWrites(\E id \in StoreSids, cf \in ContextArgs, ic \in ContinuationArgs :
                         run_agent_stream_begin(id, cf, ic))
    \/ BetweenWrites(\E a \in AgentSessionIds : save_to_disk(a))
    \/ save_to_db
    \/ BetweenWrites(Tick)
    \/ BetweenWrites(task_select)
    \/ task_pop
    \/ task_rmtree
    \/ task_delete
    \/ task_return
    \/ crash

SpecCrash == InitCrash /\ [][NextCrash]_vars

(* ------------------------------ a commit pass, statement by statement -- *)

\* tool_commit_edits as a coroutine of the event loop, with the statements
\* of its loop body as steps of their own, and readers of the session as
\* other coroutines.  pc is
\*   at     "idle" (no commit is running), "body" (at the head of the loop),
\*          "reindex" (a slide was inserted or removed, the re-index loop is
\*          next) or "record" (applied_edits.append and applied_count are next)
\*   i      the position in the queue of the edit of this turn
\*   applied_count, start   the count so far and the session as the pass
\*          found it

\* a faulty PassAwaitPoints: the commit also gives way inside its loop
PassAwaitPointsInLoop == {"idle", "body", "reindex", "record"}

\* where tool_commit_edits gives way to other coroutines: it awaits nothing,
\* so only when it is not running
PassAwaitPoints == {"idle"}

\* the slide list after the statements of the branch of edit that come
\* before its re-index loop
MutateList(slides, edit) ==
    LET inRange == 0 <= edit.slide_index /\ edit.slide_index < Len(slides)
    IN  CASE edit.operation = "ADD" ->
                 LET slide == Slide(edit.slide_index,
                                    DictGet(edit.params, "html", ""),
                                    SlideLayout[DictGet(edit.params, "layout", "blank")])
                 IN  IF edit.slide_index >= Len(slides)
                     THEN Append(slides, slide)
                     ELSE ListInsert(slides, edit.slide_index, slide)
          [] edit.operation = "UPDATE" /\ inRange ->
                 [slides EXCEPT ![edit.slide_index + 1].html =
                                    DictGet(edit.params, "html", "")]
          [] edit.operation = "DELETE" /\ inRange ->
                 ListRemove(slides, edit.slide_index)
          [] edit.operation = "REORDER" /\ inRange ->
                 ListInsert(ListRemove(slides, edit.slide_index),
                            DictGet(edit.params, "to_index", 0),
                            slides[edit.slide_index + 1])
          [] OTHER -> slides

\* the branch of edit has a re-index loop that runs
HasReindex(slides, edit) ==
    \/ edit.operation = "ADD"
    \/ /\ edit.operation \in {"DELETE", "REORDER"}
       /\ 0 <= edit.slide_index /\ edit.slide_index < Len(slides)

NoPass == [at |-> "idle", i |-> 0, applied_count |-> 0, start |-> NoObject,
           committed |-> FALSE]

\* the process starts over the document and the index row of a stored deck
InitPass ==
    /\ \E n \in 0..MaxStored :
           /\ docs = [id \in Sids |-> SessionToDict(StoredSession(id, n))]
           /\ db = [id \in Sids |-> IndexRow(StoredSession(id, n))]
    /\ heap = <<>>
    /\ cache = [id \in Sids |-> 0]
    /\ current = 0
    /\ clock = 0
    /\ nextId = 0
    /\ last = NoCall
    /\ parked = 0
    /\ lock = NoHolder
    /\ pc = NoPass
    /\ effects = NotCounted

\* a step of another coroutine: it runs where the commit gives way
BetweenPasses(step) ==
    /\ pc.at \in PassAwaitPoints
    /\ step

\* tool_commit_edits is called on a bound session with a presentation
\* (agent.py:322-328)
pass_begin ==
    /\ pc.at = "idle"
    /\ Bound
    /\ Session.presentation # NoPresentation
    /\ pc' = [pc EXCEPT !.at = "body", !.i = 1, !.applied_count = 0,
                        !.start = Session]
    /\ UNCHANGED <<heap, cache, docs, db, current, clock, nextId, last, parked, lock, effects>>

\* the branch of the edit of this turn up to its re-index loop
\* (agent.py:330-343, 348-351, 353-354, 359-363); an edit that raises is
\* logged and the loop goes on
pass_body ==
    /\ pc.at = "body"
    /\ pc.i <= Len(Session.pending_edits)
    /\ LET edit == Session.pending_edits[pc.i]
           slides == Session.presentation.slides
       IN  IF edit.operation = "ADD"
              /\ LayoutRaises(DictGet(edit.params, "layout", "blank"))
           THEN /\ pc' = [pc EXCEPT !.i = @ + 1]
                /\ heap' = heap
           ELSE /\ heap' = [heap EXCEPT ![current].presentation.slides =
                                MutateList(slides, edit)]
                /\ pc' = [pc EXCEPT !.at = IF HasReindex(slides, edit)
                                           THEN "reindex" ELSE "record"]
    /\ UNCHANGED <<cache, docs, db, current, clock, nextId, last, parked, lock, effects>>

\* for i, s in enumerate(slides): s.index = i (agent.py:344-346, 355-357,
\* 364-366)
pass_reindex ==
    /\ pc.at = "reindex"
    /\ heap' = [heap EXCEPT ![current].presentation.slides = Reindex(@)]
    /\ pc' = [pc EXCEPT !.at = "record"]
    /\ UNCHANGED <<cache, docs, db, current, clock, nextId, last, parked, lock, effects>>

\* session.applied_edits.append(edit.to_dict()); applied_count += 1
\* (agent.py:368-369)
pass_record ==
    /\ pc.at = "record"
    /\ heap' = [heap EXCEPT ![current].applied_edits =
                    Append(@, EditToDict(Session.pending_edits[pc.i]))]
    /\ pc' = [pc EXCEPT !.at = "body", !.i = @ + 1,
                        !.applied_count = @ + 1]
    /\ UNCHANGED <<cache, docs, db, current, clock, nextId, last, parked, lock, effects>>

\* the loop is over: the queue cleared, the session saved and the counts
\* returned (agent.py:375-384)
pass_end ==
    /\ pc.at = "body"
    /\ pc.i > Len(Session.pending_edits)
    /\ save_session(current,
           [Session EXCEPT !.pending_edits = ClearedQueue(Session.pending_edits)])
    /\ last' = Returned("commit_edits",
                        [success |-> TRUE, applied_count |-> pc.applied_count,
                         total_slides |-> Len(Session.presentation.slides)],
                        pc.start)
    /\ pc' = [NoPass EXCEPT !.committed = TRUE]
    /\ UNCHANGED <<current, clock, nextId, parked, lock, effects>>

\* GET /session/{session_id}/slides (main.py:230-244)
get_slides(session_id) ==
    LET got == load_session(session_id)
        session == got.heap[got.session]
    IN  /\ got.heap = heap \/ Len(heap) < ObjLimit
        /\ heap' = got.heap
        /\ cache' = got.cache
        /\ last' = IF got.session = 0
                   THEN Returned("get_slides",
                                 HTTPException(404, "Session not found"), EmptyDict)
                   ELSE IF session.presentation = NoPresentation
                   THEN Returned("get_slides", [slides |-> <<>>], EmptyDict)
                   ELSE Returned("get_slides",
                            [slides |->
                                 [i \in 1..Len(session.presentation.slides) |->
                                      SlideToDict(session.presentation.slides[i])]],
                            EmptyDict)
        /\ UNCHANGED <<docs, db, current, clock, nextId, parked, lock, pc, effects>>

\* tool_list_slides (agent.py:234-258), with the html preview left out
tool_list_slides ==
    IF ~Bound THEN Refuse("list_slides", Error("No active session"))
    ELSE IF Session.presentation = NoPresentation
    THEN Refuse("list_slides", [slides |-> <<>>, count |-> 0])
    ELSE LET slides == Session.presentation.slides
         IN  Refuse("list_slides",
                    [slides |-> [i \in 1..Len(slides) |->
                                     [index |-> slides[i].index,
                                      layout |-> LayoutValue(slides[i].layout),
                                      has_notes |-> slides[i].notes # ""]],
                     count |-> Len(slides)])

\* a run that stages and commits, the commit statement by statement, and
\* readers of the session
NextPass ==
    \/ BetweenPasses(\E id \in Sids, cf \in ContextArgs, ic \in ContinuationArgs :
                         run_agent_stream_begin(id, cf, ic))
    \/ BetweenPasses(\E args \in StoredAddArgs : tool_add_slide(args))
    \/ BetweenPasses(\E args \in DeleteArgs : tool_delete_slide(args))
    \/ BetweenPasses(\E args \in ReorderArgs : tool_reorder_slides(args))
    \/ BetweenPasses(\E id \in Sids : get_slides(id))
    \/ BetweenPasses(tool_list_slides)
    \/ pass_begin
    \/ pass_body
    \/ pass_reindex
    \/ pass_record
    \/ pass_end

SpecPass == InitPass /\ [][NextPass]_vars

(* ------------------------------ properties ----------------------------- *)

\* the last call was a commit that was not rejected
Committed == last.op = "commit_edits" /\ "success" \in DOMAIN last.ret
\* the slides and the queue that commit found, and the slides it left
PreSlides == last.pre.presentation.slides
PreQueue == last.pre.pending_edits
PostSlides == Session.presentation.slides
\* the audit records that commit appended
Appended ==
    SubSeq(Session.applied_edits, Len(last.pre.applied_edits) + 1,
           Len(Session.applied_edits))

WellIndexed(slides) == \A i \in 1..Len(slides) : slides[i].index = i - 1
InRange(index, slides) == 0 <= index /\ index < Len(slides)

\* applying edit raises: an ADD whose layout value is no SlideLayout
Raises(edit) ==
    /\ edit.operation = "ADD"
    /\ DictGet(edit.params, "layout", "blank") \notin DOMAIN SlideLayout

\* C1: in every state, every presentation's slides carry their positions:
\* slides[i].index = i (0-based) for every i; in particular after each commit
\* of any sequence of stage / commit rounds.
C1_ReindexInvariant ==
    \A o \in 1..Len(heap) :
        heap[o].presentation # NoPresentation
            => WellIndexed(heap[o].presentation.slides)

\* a commit that inserted a slide before existing ones and left two or more
C1_Witness ==
    /\ Committed
    /\ Len(PostSlides) >= 2
    /\ \E i \in 1..Len(PreQueue) :
           /\ PreQueue[i].operation = "ADD"
           /\ PreQueue[i].slide_index < Len(PreSlides)

\* the edits of q applied one after the other, from the head of q
RECURSIVE EffectInOrder(_, _)
EffectInOrder(slides, q) ==
    IF q = <<>> THEN slides
    ELSE EffectInOrder(ApplyEdit(slides, Head(q)).slides, Tail(q))

Reverse(q) == [i \in 1..Len(q) |-> q[Len(q) + 1 - i]]

\* a is b with some elements left out, the order kept
RECURSIVE IsSubsequence(_, _)
IsSubsequence(a, b) ==
    IF a = <<>> THEN TRUE
    ELSE IF b = <<>> THEN FALSE
    ELSE IF Head(a) = Head(b) THEN IsSubsequence(Tail(a), Tail(b))
    ELSE IsSubsequence(a, Tail(b))

\* C2: a commit applies the queue in staging order: the slides it leaves are
\* those of applying the edits one by one from the oldest, and the audit
\* records it appends are edits of the queue in the queue's order.
C2_FifoOrder ==
    Committed =>
        /\ PostSlides = EffectInOrder(PreSlides, PreQueue)
        /\ IsSubsequence(Appended,
                         [i \in 1..Len(PreQueue) |-> EditToDict(PreQueue[i])])
        /\ Len(Appended) = last.ret.applied_count

\* a commit of two or more edits whose order matters
C2_Witness ==
    /\ Committed
    /\ Len(PreQueue) >= 2
    /\ Len(Appended) >= 2
    /\ EffectInOrder(PreSlides, PreQueue)
           # EffectInOrder(PreSlides, Reverse(PreQueue))

\* edit takes effect on slides: an ADD always, the others when in range
TakesEffect(slides, edit) ==
    \/ edit.operation = "ADD"
    \/ 0 <= edit.slide_index /\ edit.slide_index < Len(slides)

\* the edits of q that take effect when q is applied in order
RECURSIVE EffectiveCount(_, _)
EffectiveCount(slides, q) ==
    IF q = <<>> THEN 0
    ELSE (IF TakesEffect(slides, Head(q)) THEN 1 ELSE 0)
         + EffectiveCount(ApplyEdit(slides, Head(q)).slides, Tail(q))

\* C3 (as claimed): an UPDATE, DELETE or REORDER that is out of range when
\* its turn comes is skipped and not counted: applied_count is the number of
\* edits that took effect; [DELETE(0), UPDATE(0)] on one slide gives 0
\* slides, applied_count 1 and an empty queue.
C3_SkippedNotCounted ==
    Committed =>
        /\ last.ret.applied_count = EffectiveCount(PreSlides, PreQueue)
        /\ ( /\ Len(PreSlides) = 1
             /\ Len(PreQueue) = 2
             /\ PreQueue[1].operation = "DELETE" /\ PreQueue[1].slide_index = 0
             /\ PreQueue[2].operation = "UPDATE" /\ PreQueue[2].slide_index = 0 )
           => ( /\ Len(PostSlides) = 0
                /\ last.ret.applied_count = 1
                /\ Session.pending_edits = <<>> )

\* C4: after a commit that is not rejected the queue is empty, in the session
\* and in its stored document, whatever happened to the edits.
C4_QueueEmptyAfterCommit ==
    Committed =>
        /\ Session.pending_edits = <<>>
        /\ docs[Session.session_id] # NoDoc
        /\ docs[Session.session_id].pending_edits = <<>>

\* a commit in which one edit raised and another was skipped
C4_Witness ==
    /\ Committed
    /\ \E i, j \in 1..Len(PreQueue) :
           /\ Raises(PreQueue[i])
           /\ PreQueue[j].operation = "UPDATE"
           /\ ~InRange(PreQueue[j].slide_index, PostSlides)
    /\ PostSlides = PreSlides

\* the queue of session s holds only ADDs, each aimed at the next free slot
\* after the committed slides (what ADDs staged with no position leave)
SequentialAdds(s) ==
    \A i \in 1..Len(s.pending_edits) :
        /\ s.pending_edits[i].operation = "ADD"
        /\ s.pending_edits[i].slide_index = Len(s.presentation.slides) + i - 1

\* C5, at commit: k queued ADDs aimed at n, n+1, ..., n+k-1 end at exactly
\* those positions, in staging order, behind the n slides that were there
C5_BatchLands ==
    (Committed /\ SequentialAdds(last.pre)) =>
        /\ Len(PostSlides) = Len(PreSlides) + Len(PreQueue)
        /\ \A i \in 1..Len(PreSlides) : PostSlides[i] = PreSlides[i]
        /\ \A i \in 1..Len(PreQueue) :
               LET slide == PostSlides[Len(PreSlides) + i]
               IN  /\ slide.html = PreQueue[i].params.html
                   /\ slide.index = PreQueue[i].slide_index

\* C5, at staging: an ADD with no position, staged behind such ADDs only,
\* is aimed at n + (number of queued ADDs) and that index is returned
C5_StagedAtEnd ==
    \A args \in {a \in AddArgs : "position" \notin DOMAIN a} :
        ( /\ Bound
          /\ Session.presentation # NoPresentation
          /\ SequentialAdds(Session)
          /\ tool_add_slide(args) )
        => /\ SequentialAdds(heap'[current])
           /\ Len(heap'[current].pending_edits) = Len(Session.pending_edits) + 1
           /\ last'.ret.slide_index =
                  Len(Session.presentation.slides) + Len(Session.pending_edits)

\* C5: k ADDs staged with no position against n committed slides and an
\* otherwise empty queue, then committed, put the new slides at n .. n+k-1
\* in staging order, and each stage_add returned the index its slide gets.
C5_AddBatchPositions == []C5_BatchLands /\ [][C5_StagedAtEnd]_vars

\* three ADDs with no position committed into an empty presentation
C5_Witness ==
    /\ Committed
    /\ SequentialAdds(last.pre)
    /\ Len(PreSlides) = 0
    /\ Len(PreQueue) = 3
    /\ PostSlides[1].html # PostSlides[2].html

\* C6: update_slide and delete_slide with slide_index outside
\* [0, committed slide count), and reorder_slides with from_index or to_index
\* outside it, return an invalid-index error and leave the queue (and the
\* whole session) as it was; queued ADDs do not widen the range.
C6_OutOfRangeRejected ==
    [][ (Bound /\ Session.presentation # NoPresentation) =>
          LET slides == Session.presentation.slides
              Rejected == /\ "error" \in DOMAIN last'.ret
                          /\ last'.ret.error[1] \in {"Invalid slide index:",
                                                     "Invalid from_index:",
                                                     "Invalid to_index:"}
                          /\ heap' = heap
                          /\ heap'[current].pending_edits = Session.pending_edits
          IN  /\ \A args \in UpdateArgs :
                     (~InRange(args.slide_index, slides) /\ tool_update_slide(args))
                         => Rejected
              /\ \A args \in DeleteArgs :
                     (~InRange(args.slide_index, slides) /\ tool_delete_slide(args))
                         => Rejected
              /\ \A args \in ReorderArgs :
                     ( /\ \/ ~InRange(args.from_index, slides)
                          \/ ~InRange(args.to_index, slides)
                       /\ tool_reorder_slides(args) )
                         => Rejected ]_vars

\* update_slide was refused for the index just behind the committed slides
\* while an ADD that would create that index is queued
C6_Witness ==
    /\ last.op = "update_slide"
    /\ Bound
    /\ Session.presentation # NoPresentation
    /\ "error" \in DOMAIN last.ret
    /\ last.ret.error[2] = Len(Session.presentation.slides)
    /\ Len(Session.presentation.slides) >= 1
    /\ \E i \in 1..Len(Session.pending_edits) :
           /\ Session.pending_edits[i].operation = "ADD"
           /\ Session.pending_edits[i].slide_index = Len(Session.presentation.slides)

\* a step of one of the four staging tools
StagingStep ==
    \/ \E args \in AddArgs : tool_add_slide(args)
    \/ \E args \in UpdateArgs : tool_update_slide(args)
    \/ \E args \in DeleteArgs : tool_delete_slide(args)
    \/ \E args \in ReorderArgs : tool_reorder_slides(args)

\* C7: a staging call changes nothing but the queue: the cache, the documents,
\* the index, the bound session and every field of every session other than
\* pending_edits stay as they are; the queue stays as it is or (on success)
\* gets exactly one edit at its end.
C7_StagingFrame ==
    [][ StagingStep =>
          /\ cache' = cache /\ docs' = docs /\ db' = db /\ current' = current
          /\ Len(heap') = Len(heap)
          /\ \A o \in 1..Len(heap) :
                 /\ [heap'[o] EXCEPT !.pending_edits = <<>>]
                        = [heap[o] EXCEPT !.pending_edits = <<>>]
                 /\ IF o = current /\ "success" \in DOMAIN last'.ret
                    THEN /\ Len(heap'[o].pending_edits) = Len(heap[o].pending_edits) + 1
                         /\ SubSeq(heap'[o].pending_edits, 1, Len(heap[o].pending_edits))
                                = heap[o].pending_edits
                    ELSE heap'[o].pending_edits = heap[o].pending_edits ]_vars

\* an edit was staged on a session that has committed slides and a document
C7_Witness ==
    /\ last.op \in {"add_slide", "update_slide", "delete_slide", "reorder_slides"}
    /\ "success" \in DOMAIN last.ret
    /\ Bound
    /\ Len(Session.presentation.slides) >= 1
    /\ docs[Session.session_id] # NoDoc
    /\ Session.pending_edits # <<>>

\* a slide without its index
Content(slide) == [html |-> slide.html, layout |-> slide.layout, notes |-> slide.notes]
Contents(slides) == [i \in 1..Len(slides) |-> Content(slides[i])]
\* the sequence s without its element k
Without(s, k) == [j \in 1..(Len(s) - 1) |-> IF j < k THEN s[j] ELSE s[j + 1]]

\* after is before with the slide at from moved to position p (0-based), the
\* other slides in their order, re-indexed
MovedTo(before, after, from, p) ==
    /\ Len(after) = Len(before)
    /\ p + 1 \in 1..Len(after)
    /\ Content(after[p + 1]) = Content(before[from + 1])
    /\ Contents(Without(after, p + 1)) = Contents(Without(before, from + 1))
    /\ WellIndexed(after)

\* the last edit of the committed queue is a REORDER whose source is in
\* range when its turn comes, and the slides it finds
LastEdit == PreQueue[Len(PreQueue)]
BeforeLast == EffectInOrder(PreSlides, SubSeq(PreQueue, 1, Len(PreQueue) - 1))
ReorderCommitted ==
    /\ Committed
    /\ PreQueue # <<>>
    /\ LastEdit.operation = "REORDER"
    /\ InRange(LastEdit.slide_index, BeforeLast)

\* REORDER(0, 2) committed alone into [A, B, C] gives [B, C, A]
ReorderExample ==
    ( /\ Committed
      /\ [i \in 1..Len(PreSlides) |-> PreSlides[i].html] = <<"A", "B", "C">>
      /\ Len(PreQueue) = 1
      /\ PreQueue[1].operation = "REORDER"
      /\ PreQueue[1].slide_index = 0
      /\ PreQueue[1].params.to_index = 2 )
    => /\ [i \in 1..Len(PostSlides) |-> PostSlides[i].html] = <<"B", "C", "A">>
       /\ WellIndexed(PostSlides)

\* C8 (as claimed): a committed REORDER(from, to) with from in range leaves
\* the moved slide at position to, the others in their order, re-indexed.
C8_ReorderEndsAtTo ==
    /\ ReorderCommitted
           => MovedTo(BeforeLast, PostSlides, LastEdit.slide_index,
                      LastEdit.params.to_index)
    /\ ReorderExample

\* C8 (amended): ... leaves the moved slide at position to when to is a
\* position of the deck at that moment, and at the last position when to is
\* beyond it (the deck shrank since staging).
C8_ReorderEndsAtToOrLast ==
    /\ ReorderCommitted
           => MovedTo(BeforeLast, PostSlides, LastEdit.slide_index,
                      IF LastEdit.params.to_index < Len(BeforeLast)
                      THEN LastEdit.params.to_index
                      ELSE Len(BeforeLast) - 1)
    /\ ReorderExample

\* a REORDER was committed whose destination lay beyond the deck
C8_Witness ==
    /\ ReorderCommitted
    /\ LastEdit.params.to_index >= Len(BeforeLast)
    /\ Len(BeforeLast) >= 2
    /\ LastEdit.slide_index = 0

\* C9: a commit call returns an error exactly when no session is bound or the
\* bound session has no presentation, and then changes nothing; every other
\* commit call returns success, whatever became of the edits.
C9_CommitFailsWholesaleOnly ==
    [][ tool_commit_edits =>
          IF ~Bound \/ Session.presentation = NoPresentation
          THEN /\ "error" \in DOMAIN last'.ret
               /\ UNCHANGED <<heap, cache, docs, db, current, clock, nextId>>
          ELSE /\ "success" \in DOMAIN last'.ret
               /\ last'.ret.success = TRUE ]_vars

\* a commit returned success although one edit raised and the other was
\* skipped
C9_Witness ==
    /\ Committed
    /\ Len(PreQueue) = 2
    /\ Raises(PreQueue[1])
    /\ PreQueue[2].operation = "DELETE"
    /\ ~InRange(PreQueue[2].slide_index, PreSlides)
    /\ last.ret.applied_count = 1

\* the pass over q in which an edit that raises does nothing at all: the
\* slides left, the records appended and the count
RECURSIVE PassWithoutRaising(_, _)
PassWithoutRaising(slides, q) ==
    IF q = <<>> THEN [slides |-> slides, records |-> <<>>, count |-> 0]
    ELSE IF Raises(Head(q)) THEN PassWithoutRaising(slides, Tail(q))
    ELSE LET rest == PassWithoutRaising(ApplyEdit(slides, Head(q)).slides, Tail(q))
         IN  [slides |-> rest.slides,
              records |-> <<EditToDict(Head(q))>> \o rest.records,
              count |-> rest.count + 1]

\* C10: an edit whose application raises is not counted, not recorded in the
\* audit trail and leaves the slides as they were, and the edits queued
\* behind it are applied in order all the same.
C10_FailureBoundary ==
    Committed =>
        /\ PostSlides = PassWithoutRaising(PreSlides, PreQueue).slides
        /\ Appended = PassWithoutRaising(PreSlides, PreQueue).records
        /\ last.ret.applied_count = PassWithoutRaising(PreSlides, PreQueue).count

\* a commit whose first edit raised and whose second changed the slides
C10_Witness ==
    /\ Committed
    /\ Len(PreQueue) = 2
    /\ Raises(PreQueue[1])
    /\ ~Raises(PreQueue[2])
    /\ PostSlides # PreSlides
    /\ last.ret.applied_count = 1

\* C11: a commit that is not rejected returns total_slides = the number of
\* slides it leaves and applied_count = the number of records it appended to
\* the audit trail; every appended record carries the five fields of exactly
\* one edit of the queue, and that edit did not raise.
C11_ResultMatchesAudit ==
    Committed =>
        /\ last.ret.total_slides = Len(PostSlides)
        /\ last.ret.applied_count = Len(Appended)
        /\ \A k \in 1..Len(Appended) :
               \E i \in 1..Len(PreQueue) :
                   /\ Appended[k].edit_id = PreQueue[i].edit_id
                   /\ Appended[k].slide_index = PreQueue[i].slide_index
                   /\ Appended[k].operation = PreQueue[i].operation
                   /\ Appended[k].params = PreQueue[i].params
                   /\ Appended[k].preview = PreQueue[i].preview
                   /\ ~Raises(PreQueue[i])
                   /\ \A j \in 1..Len(PreQueue) :
                          PreQueue[j].edit_id = Appended[k].edit_id => j = i
        /\ \A k1, k2 \in 1..Len(Appended) :
               Appended[k1].edit_id = Appended[k2].edit_id => k1 = k2

\* a commit into a deck of two or more slides that recorded one edit and
\* left another, which raised, unrecorded
C11_Witness ==
    /\ Committed
    /\ Len(PreQueue) = 2
    /\ Len(Appended) = 1
    /\ \E i \in 1..2 : Raises(PreQueue[i])
    /\ last.ret.total_slides >= 2
    /\ last.ret.total_slides # last.ret.applied_count

\* a step that ends in save_session: a commit that is not rejected, or the
\* end of a run
SaveStep ==
    \/ Bound /\ Session.presentation # NoPresentation /\ tool_commit_edits
    \/ \E a \in AgentSessionIds : run_agent_stream_end(a)

\* C12, save: the document that save writes deserializes to a session equal
\* to the saved one, field by field
C12_SavedDocumentReads ==
    SaveStep =>
        LET saved == heap'[current]
            document == docs'[saved.session_id]
        IN  /\ document # NoDoc /\ document # Garbled
            /\ ~FromDictRaises(document)
            /\ SessionFromDict(document) = saved

\* C12, load: a load that finds the id in no cache returns the session the
\* document describes (serialized again it is that document), and caches it
C12_LoadReadsDocument ==
    \A id \in DOMAIN cache :
        (cache[id] = 0 /\ docs[id] # NoDoc /\ get_session(id)) =>
            /\ "error" \notin DOMAIN last'.ret
            /\ cache'[id] # 0
            /\ heap'[cache'[id]] = SessionFromDict(docs[id])
            /\ SessionToDict(heap'[cache'[id]]) = docs[id]
            /\ last'.ret.presentation = docs[id].presentation
            /\ last'.ret.pending_edits = docs[id].pending_edits

\* C12: save, eviction from the cache and load give back an equal session:
\* title, slides in order with index, html, layout and notes, theme, pending
\* queue and audit trail (and every other field).
C12_RoundTrip == [][C12_SavedDocumentReads /\ C12_LoadReadsDocument]_vars

\* a session was read back from its document after a restart: two slides
\* with a layout that is not the default, a theme, a queued edit and an
\* audit trail
C12_Witness ==
    /\ last.op = "get_session"
    /\ "error" \notin DOMAIN last.ret
    /\ ~last.pre.cached
    /\ LET s == heap[cache[last.ret.session_id]]
       IN  /\ s.presentation # NoPresentation
           /\ Len(s.presentation.slides) = 2
           /\ s.presentation.slides[2].layout = "TITLE"
           /\ s.presentation.theme # EmptyDict
           /\ Len(s.pending_edits) = 1
           /\ Len(s.applied_edits) = 2

\* the session that from_dict builds from the document of the bound session
Rebuilt == SessionFromDict(docs[Session.session_id])

\* C13: when a commit has returned success, the document of the session
\* holds the slides and the audit trail the commit left and an empty queue;
\* the session rebuilt from that document has the slides of the one in
\* memory, and a commit on it applies nothing and changes nothing.
C13_CommitDurable ==
    Committed =>
        /\ Loadable(Session.session_id)
        /\ docs[Session.session_id].presentation.slides
               = [i \in 1..Len(PostSlides) |-> SlideToDict(PostSlides[i])]
        /\ docs[Session.session_id].applied_edits = Session.applied_edits
        /\ docs[Session.session_id].pending_edits = <<>>
        /\ Rebuilt.presentation.slides = PostSlides
        /\ CommitLoop(Rebuilt.pending_edits, 1,
                      [slides |-> Rebuilt.presentation.slides,
                       applied_edits |-> Rebuilt.applied_edits,
                       applied_count |-> 0])
               = [slides |-> PostSlides, applied_edits |-> Session.applied_edits,
                  applied_count |-> 0]

\* a commit applied a queue of two edits to a session that already had a
\* document
C13_Witness ==
    /\ Committed
    /\ Len(PreQueue) = 2
    /\ last.ret.applied_count = 2
    /\ Len(PostSlides) = 3
    /\ Len(Session.applied_edits) = 3

\* the document of the bound session shows the slides the pass left
DocumentHasPass ==
    docs[Session.session_id].presentation.slides
        = [i \in 1..Len(PostSlides) |-> SlideToDict(PostSlides[i])]

\* C14 (as claimed): a commit applies the queue, then hands the session to
\* the store, and only then clears the queue: the document written holds the
\* slides of the pass and the queue as it was before it was cleared.
C14_PersistThenClear ==
    Committed =>
        /\ DocumentHasPass
        /\ docs[Session.session_id].pending_edits
               = [i \in 1..Len(PreQueue) |-> EditToDict(PreQueue[i])]
        /\ Session.pending_edits = <<>>

\* C14 (amended): a commit applies the queue, then clears it, and only then
\* hands the session to the store: the document written holds the slides of
\* the pass and the empty queue, and is the session as the commit leaves it.
C14_ClearThenPersist ==
    Committed =>
        /\ DocumentHasPass
        /\ docs[Session.session_id].pending_edits = <<>>
        /\ Session.pending_edits = <<>>
        /\ docs[Session.session_id] = SessionToDict(Session)

\* a commit of a queue of three edits, whose document has no queue
C14_Witness ==
    /\ Committed
    /\ Len(PreQueue) = 3
    /\ docs[Session.session_id].pending_edits = <<>>
    /\ Len(docs[Session.session_id].applied_edits) = 3

\* C15: when save_session returns, the cache maps the session's id to the
\* saved object, the document is the object's full state, and the index row
\* holds its id, created_at, conversation handle and updated_at; updated_at
\* is the time of the save, the same in the object, the document and the row.
C15_SavePostcondition ==
    [][ SaveStep =>
          LET saved == heap'[current]
              id == saved.session_id
          IN  /\ cache'[id] = current
              /\ saved.updated_at = clock
              /\ docs'[id] = SessionToDict(saved)
              /\ db'[id] # NoRow
              /\ db'[id].session_id = id
              /\ db'[id].created_at = Isoformat(saved.created_at)
              /\ db'[id].claude_session_id = saved.claude_session_id
              /\ db'[id].updated_at = Isoformat(clock)
              /\ docs'[id].updated_at = db'[id].updated_at
              /\ FromIsoformat(db'[id].updated_at) = saved.updated_at ]_vars

\* a run ended and saved a session later than it was created, at a time
\* whose isoformat has a fraction
C15_Witness ==
    /\ last.op = "run_agent_stream_end"
    /\ \E id \in DOMAIN cache :
           /\ cache[id] # 0
           /\ heap[cache[id]].presentation # NoPresentation
           /\ heap[cache[id]].claude_session_id = "c1"
           /\ heap[cache[id]].created_at < heap[cache[id]].updated_at
           /\ heap[cache[id]].updated_at = clock
           /\ Len(Isoformat(clock)) = 2
           /\ db[id] # NoRow
           /\ db[id].updated_at = Isoformat(clock)

\* a session without the two fields that run_agent_stream sets on the
\* session it gets
Core(s) == [s EXCEPT !.context_files = <<>>, !.is_continuation = FALSE]

\* a step of a run that starts with session id given
BeginStep(id) ==
    \E cf \in ContextArgs, ic \in ContinuationArgs : run_agent_stream_begin(id, cf, ic)

\* the session objects that were there are as they were, but for object o
OthersKept(o) ==
    /\ Len(heap') >= Len(heap)
    /\ \A p \in 1..Len(heap) : p # o => heap'[p] = heap[p]

\* C16: get_or_create_session with an id that is in the cache returns the
\* cached object as it is; with an id that is not in the cache but has a
\* document it returns the session read from the document and caches it;
\* only with an id that has neither does it construct a session.  A session
\* that exists is never replaced and keeps its presentation, queue and
\* audit trail.
C16_LookupChain ==
    [][ \A id \in DOMAIN cache :
          BeginStep(id) =>
            IF cache[id] # 0
            THEN /\ current' = cache[id]
                 /\ Core(heap'[current']) = Core(heap[cache[id]])
                 /\ Len(heap') = Len(heap)
                 /\ OthersKept(current')
                 /\ cache' = cache /\ docs' = docs /\ db' = db
            ELSE IF docs[id] # NoDoc
            THEN /\ current' = Len(heap) + 1
                 /\ Len(heap') = Len(heap) + 1
                 /\ Core(heap'[current']) = Core(SessionFromDict(docs[id]))
                 /\ SessionToDict(Core(heap'[current']))
                        = SessionToDict(Core(SessionFromDict(docs[id])))
                 /\ heap'[current'].created_at = FromIsoformat(docs[id].created_at)
                 /\ OthersKept(current')
                 /\ cache' = [cache EXCEPT ![id] = current']
                 /\ docs' = docs /\ db' = db
            ELSE /\ current' = Len(heap) + 1
                 /\ Core(heap'[current']) = PresentationSession(id, clock)
                 /\ OthersKept(current')
                 /\ cache' = [cache EXCEPT ![id] = current'] ]_vars

\* a run started on a session that was read from its document, with a
\* slide, a queued edit and an audit trail
C16_Witness ==
    /\ last.op = "run_agent_stream_begin"
    /\ last.pre.how = "loaded"
    /\ Bound
    /\ Session.presentation # NoPresentation
    /\ Len(Session.presentation.slides) = 1
    /\ Len(Session.pending_edits) = 1
    /\ Len(Session.applied_edits) = 1
    /\ Len(docs[Session.session_id].pending_edits) = 1

\* C17 (as claimed): when get_or_create_session has constructed a session,
\* the session is in the cache and in both mirrors: an index row and a
\* document exist for its id, and the document can be loaded.
C17_NewSessionInBothMirrors ==
    (last.op = "run_agent_stream_begin" /\ last.pre.how = "created") =>
        /\ cache[last.ret.session_id] = current
        /\ db[last.ret.session_id] # NoRow
        /\ docs[last.ret.session_id] # NoDoc
        /\ Loadable(last.ret.session_id)

\* C18: load_session for an id with no cache entry and no document returns
\* None (the endpoint answers "Session not found") and leaves the cache, the
\* documents, the index and every session object as they were; for an id
\* that has one of the two it returns the session get_or_create_session
\* would return, and leaves the store as get_or_create_session would.
C18_LoadNeverCreates ==
    [][ \A id \in DOMAIN cache :
          get_session(id) =>
            IF cache[id] = 0 /\ docs[id] = NoDoc
            THEN /\ load_session(id).session = 0
                 /\ "error" \in DOMAIN last'.ret
                 /\ last'.ret.error = "Session not found"
                 /\ heap' = heap /\ cache' = cache /\ docs' = docs /\ db' = db
            ELSE /\ load_session(id).session # 0
                 /\ load_session(id).session = get_or_create_session(id, id).session
                 /\ load_session(id).heap = get_or_create_session(id, id).heap
                 /\ heap' = get_or_create_session(id, id).heap
                 /\ cache' = get_or_create_session(id, id).cache
                 /\ db' = get_or_create_session(id, id).db
                 /\ docs' = docs
                 /\ "error" \notin DOMAIN last'.ret
                 /\ last'.ret.session_id = id ]_vars

\* a session was asked for that has an index row but no cache entry and no
\* document: it was not found and nothing was created
C18_Witness ==
    /\ last.op = "get_session"
    /\ "error" \in DOMAIN last.ret
    /\ db[last.pre.session_id] # NoRow
    /\ docs[last.pre.session_id] = NoDoc
    /\ cache[last.pre.session_id] = 0
    /\ heap = <<>>

\* C19: when the document of a session cannot be read or does not
\* deserialize, load_session returns None: the caller gets "Session not
\* found" and no exception, and the cache, the session objects and the
\* mirrors are as they were: the cache gains no entry.
C19_FailSoftLoad ==
    [][ \A id \in DOMAIN cache :
          (cache[id] = 0 /\ docs[id] # NoDoc /\ ~Loadable(id) /\ get_session(id)) =>
              /\ load_session(id).session = 0
              /\ load_session(id).cache = cache
              /\ load_session(id).heap = heap
              /\ last'.ret = Error("Session not found")
              /\ cache' = cache /\ heap' = heap
              /\ docs' = docs /\ db' = db ]_vars

\* a session was asked for whose document has a slide that does not
\* deserialize (the title and the other fields do): nothing was cached
C19_Witness ==
    /\ last.op = "get_session"
    /\ "error" \in DOMAIN last.ret
    /\ docs[last.pre.session_id] = UnknownLayoutDoc(last.pre.session_id)
    /\ cache[last.pre.session_id] = 0
    /\ \E id \in DOMAIN cache : cache[id] # 0

\* the sessions whose index row has updated_at earlier than the time c
Expired(c) ==
    {id \in DOMAIN db : db[id] # NoRow /\ FromIsoformat(db[id].updated_at) < c}

\* C20: a pass of cleanup_old_sessions with cutoff c removes exactly the
\* sessions whose index row has updated_at earlier than c: each is then in
\* no cache, has no document and no row; every other session keeps its cache
\* entry, its object, its document and its row; the count returned is the
\* number of sessions removed.
C20_SweepRemovesExactlyExpired ==
    [][ cleanup_task =>
          LET c == clock - RetentionTicks
          IN  /\ \A id \in Expired(c) :
                     cache'[id] = 0 /\ docs'[id] = NoDoc /\ db'[id] = NoRow
              /\ \A id \in DOMAIN db \ Expired(c) :
                     cache'[id] = cache[id] /\ docs'[id] = docs[id]
                                           /\ db'[id] = db[id]
              /\ heap' = heap
              /\ last'.ret.cleaned = Cardinality(Expired(c))
              /\ OldSessions(c) = Expired(c) ]_vars

\* a pass removed one session and kept another, cached and with a document,
\* whose row is exactly as old as the cutoff
C20_Witness ==
    /\ last.op = "cleanup_old_sessions"
    /\ last.ret.cleaned = 1
    /\ \E gone, kept \in DOMAIN db :
           /\ cache[gone] = 0 /\ docs[gone] = NoDoc /\ db[gone] = NoRow
           /\ cache[kept] # 0 /\ docs[kept] # NoDoc /\ db[kept] # NoRow
           /\ db[kept].updated_at = Isoformat(clock - RetentionTicks)
           /\ Len(db[kept].updated_at) = 2

\* C21, the second pass: a pass that follows a pass with the same cutoff,
\* with no call in between, returns 0 and leaves the cache, the documents,
\* the index and the session objects as they are
C21_SecondPassIsNoOp ==
    (last.op = "cleanup_old_sessions"
         /\ last.pre.cutoff = clock - RetentionTicks /\ cleanup_task) =>
        /\ last'.ret.cleaned = 0
        /\ UNCHANGED <<heap, cache, docs, db>>

\* C21, absent representations: a pass removes a selected session that is
\* in no cache or has no document all the same, returning its count
C21_AbsentIsNoError ==
    cleanup_task =>
        \A id \in OldSessions(clock - RetentionTicks) :
            /\ cache'[id] = 0 /\ docs'[id] = NoDoc /\ db'[id] = NoRow
            /\ "cleaned" \in DOMAIN last'.ret
            /\ last'.ret.cleaned >= 1

\* C21: after a pass no session is left that a pass with the same cutoff
\* selects; the second of two passes in a row removes nothing, returns 0
\* and raises nothing; a selected session whose cache entry or document is
\* absent already is removed without an error.
C21_RetentionIdempotent ==
    /\ [](last.op = "cleanup_old_sessions" => OldSessions(last.pre.cutoff) = {})
    /\ [][C21_SecondPassIsNoOp /\ C21_AbsentIsNoError]_vars

\* a pass returned 0 right after a pass with the same cutoff that had
\* removed a session
C21_Witness ==
    /\ last.op = "cleanup_old_sessions"
    /\ last.pre.before >= 1
    /\ last.ret.cleaned = 0

\* the sessions the pass in progress selected are gone from the cache, the
\* documents and the index
PassComplete ==
    \A id \in pc.old_sessions :
        cache[id] = 0 /\ docs[id] = NoDoc /\ db[id] = NoRow

\* C22: the cancellation of the cleanup task at shutdown reaches it before
\* its first pass or between two passes, never inside one (every session
\* the last pass selected is gone from the cache, the documents and the
\* index), and the shutdown raises nothing to its caller.
C22_ShutdownBetweenPasses ==
    /\ pc.task = "cancelled" =>
           /\ pc.from \in {"created", "sleep"}
           /\ pc.todo = {}
           /\ PassComplete
    /\ pc.lifespan = "stopped" => pc.task = "cancelled" /\ pc.error = None

\* the shutdown is over after a pass that removed a session
C22_Witness ==
    /\ pc.lifespan = "stopped"
    /\ pc.from = "sleep"
    /\ last.op = "cleanup_pass"
    /\ last.ret.cleaned >= 1

\* no value stands at two places of seq
NoRepeat(seq) ==
    \A i, j \in 1..Len(seq) : i # j => seq[i] # seq[j]
\* the edit ids of an audit trail
AuditIds(applied_edits) ==
    [i \in 1..Len(applied_edits) |-> applied_edits[i].edit_id]

\* C23: whatever the interleaving of the tool calls of two runs on one
\* session, of saves and of loads after a restart, no edit id changes a
\* slide list twice, and no edit id stands twice in an audit trail (of a
\* session object or of a stored document).
C23_AtMostOnce ==
    /\ NoRepeat(effects.ids)
    /\ \A o \in 1..Len(heap) : NoRepeat(AuditIds(heap[o].applied_edits))
    /\ \A id \in DOMAIN docs :
           docs[id] # NoDoc => NoRepeat(AuditIds(docs[id].applied_edits))

\* a run committed while another run on the same session, after whose
\* commit it had staged, was still in flight
C23_Witness ==
    /\ Committed
    /\ current # 0 /\ parked = current
    /\ last.pre.applied_edits # <<>>
    /\ last.pre.pending_edits # <<>>
    /\ Len(effects.ids) >= 2

\* caller c is inside the with self._lock block of a method
Inside(c) == pc[c].at \in {"read", "write", "release"}

\* at most one caller is inside a method of the store
MutualExclusion == \A c, d \in Callers : Inside(c) /\ Inside(d) => c = d

\* get_or_create_session returns to caller c
Returns(c, op) ==
    pc[c].at = "release" /\ pc[c].op = op /\ pc'[c].at = "idle"

\* every caller of get_or_create_session receives the object the cache has
\* for the id
SameObject ==
    \A c \in Callers :
        Returns(c, "get_or_create_session") =>
            /\ pc'[c].session # 0
            /\ pc'[c].session = cache'[pc[c].session_id]

\* the cache entry of an id goes from one session object to another only
\* through a removal by the sweep
RemapOnlyAfterSweep ==
    \A id \in DOMAIN cache :
        cache[id] # 0 /\ cache'[id] # 0 => cache'[id] = cache[id]

\* C24, the part that holds: the sections exclude each other, and every
\* caller of get_or_create receives the object the cache has for the id
C24_SectionsExclude ==
    /\ []MutualExclusion
    /\ [][SameObject]_vars

\* C24 (as claimed): at most one of get_or_create, save, load and sweep is
\* inside its section at any time; every caller of get_or_create receives
\* the one object of the id; and the cache never maps an id to one session
\* and then to another without a sweep in between.
C24_StoreMutualExclusion ==
    /\ C24_SectionsExclude
    /\ [][RemapOnlyAfterSweep]_vars

\* a is the beginning of b
IsPrefix(a, b) ==
    Len(a) <= Len(b) /\ \A i \in 1..Len(a) : a[i] = b[i]

\* C25 (as claimed): whatever the operation, the audit trail a session had
\* before it is the beginning of the trail it has after it: no operation
\* removes or rewrites a record.
C25_AuditAppendOnly ==
    [][\A o \in 1..Len(heap) :
           o <= Len(heap') /\ heap'[o].session_id = heap[o].session_id =>
               IsPrefix(heap[o].applied_edits, heap'[o].applied_edits)]_vars

\* edit with a layout value that is no SlideLayout replaced by "blank"
CoercedEdit(edit) ==
    IF Raises(edit) THEN [edit EXCEPT !.params.layout = "blank"] ELSE edit

\* C26 (as claimed): an unknown layout value becomes BLANK and makes
\* nothing fail, where an ADD is staged (the queued edit carries a layout
\* that is a SlideLayout), where an ADD is applied by a commit (the slides
\* are those the queue gives with "blank" in place of the unknown value,
\* and every edit is recorded), and where a stored slide is read (a
\* document whose only fault is such a value loads).
C26_UnknownLayoutCoerced ==
    /\ \A o \in 1..Len(heap) : \A i \in 1..Len(heap[o].pending_edits) :
           (heap[o].pending_edits[i].edit_id >= 0
                /\ heap[o].pending_edits[i].operation = "ADD")
               => ~Raises(heap[o].pending_edits[i])
    /\ Committed =>
           /\ PostSlides = EffectInOrder(PreSlides,
                               [i \in 1..Len(PreQueue) |-> CoercedEdit(PreQueue[i])])
           /\ Len(Appended) = Len(PreQueue)
    /\ \A id \in DOMAIN docs :
           docs[id] = UnknownLayoutDoc(id) => Loadable(id)

\* the step is a call of a staging tool or of commit_edits
StagingOrCommitCall ==
    /\ last' # last
    /\ last'.op \in {"add_slide", "update_slide", "delete_slide",
                     "reorder_slides", "commit_edits"}

\* the error dicts of a session without a presentation
NoPresentationErrors ==
    {Error("No presentation created. Use create_presentation first."),
     Error("No presentation loaded"), Error("No presentation created")}

\* C27, no session: a staging or commit call with no session bound returns
\* the error dict of a missing session and changes nothing
C27_NoSession ==
    (StagingOrCommitCall /\ ~Bound) =>
        /\ last'.ret = Error("No active session")
        /\ UNCHANGED <<heap, cache, docs, db, current, clock, nextId>>

\* C27, no presentation: a staging or commit call on a bound session that
\* has no presentation returns an error dict that says so and changes nothing
C27_NoPresentation ==
    (StagingOrCommitCall /\ Bound /\ Session.presentation = NoPresentation) =>
        /\ last'.ret \in NoPresentationErrors
        /\ UNCHANGED <<heap, cache, docs, db, current, clock, nextId>>

\* C27: every staging call and every commit returns an error dict, and
\* raises nothing, enqueues nothing and changes nothing, when no session is
\* bound and when the bound session has no presentation.
C27_StructuredErrors ==
    [][C27_NoSession /\ C27_NoPresentation]_vars

\* a staging call on a bound session without a presentation was refused
C27_Witness ==
    /\ Bound
    /\ Session.presentation = NoPresentation
    /\ last.op = "add_slide"
    /\ last.ret \in NoPresentationErrors

\* the queued ADDs of session s
QueuedAdds(s) ==
    Cardinality({i \in 1..Len(s.pending_edits) :
                     s.pending_edits[i].operation = "ADD"})

\* the index the claim gives a stage_add with args on session s
ClaimedTarget(args, s) ==
    LET n == Len(s.presentation.slides)
        a == QueuedAdds(s)
    IN  IF "position" \notin DOMAIN args THEN n + a
        ELSE IF args.position >= n + a THEN n + a
        ELSE IF args.position >= 0 THEN args.position ELSE 0

\* C28: with n committed slides and a queued ADDs, add_slide aims at n + a
\* when position is left out or is n + a or more, and at max(0, position)
\* otherwise; it returns that index and the edit it appends carries it;
\* queued edits that are no ADD do not count.
C28_AddPositionResolution ==
    [][\A args \in AddArgs :
           ( /\ Bound
             /\ Session.presentation # NoPresentation
             /\ tool_add_slide(args) )
           => LET q == heap'[current].pending_edits
              IN  /\ Len(q) = Len(Session.pending_edits) + 1
                  /\ q[Len(q)].operation = "ADD"
                  /\ q[Len(q)].slide_index = ClaimedTarget(args, Session)
                  /\ last'.ret.slide_index = ClaimedTarget(args, Session)]_vars

\* an ADD was staged behind a queued edit that is no ADD, and aimed at the
\* end of the deck as the queued ADDs alone will make it
C28_Witness ==
    /\ Bound
    /\ last.op = "add_slide"
    /\ "success" \in DOMAIN last.ret
    /\ LET q == Session.pending_edits
       IN  /\ Len(q) >= 2
           /\ \E i \in 1..(Len(q) - 1) : q[i].operation # "ADD"
           /\ Len(Session.presentation.slides) >= 1
           /\ last.ret.slide_index
                  = Len(Session.presentation.slides) + QueuedAdds(Session) - 1

\* the last call was a staging call that succeeded
Staged ==
    /\ last.op \in {"add_slide", "update_slide", "delete_slide", "reorder_slides"}
    /\ "success" \in DOMAIN last.ret

\* C29 (as claimed): every staging call that succeeds returns the edit_id
\* of the edit it appended, and no other edit of the session's queue or
\* audit trail has that edit_id.
C29_StagingReturnsEditId ==
    (Bound /\ Staged) =>
        LET q == Session.pending_edits
            trail == Session.applied_edits
        IN  /\ "edit_id" \in DOMAIN last.ret
            /\ q # <<>>
            /\ last.ret.edit_id = q[Len(q)].edit_id
            /\ \A i \in 1..(Len(q) - 1) : q[i].edit_id # last.ret.edit_id
            /\ \A i \in 1..Len(trail) : trail[i].edit_id # last.ret.edit_id

\* C30, the reset: after soft_reset the queue is empty and the session is
\* otherwise as the call found it, but for the updated_at stamp
C30_ResetKeepsTheRest ==
    last.op = "soft_reset" =>
        /\ Session.pending_edits = <<>>
        /\ Session.presentation = last.pre.presentation
        /\ Session.applied_edits = last.pre.applied_edits
        /\ [Session EXCEPT !.updated_at = 0]
               = [last.pre EXCEPT !.pending_edits = <<>>, !.updated_at = 0]

\* C30, the stores: soft_reset leaves the cache, the documents, the index
\* and the edit ids as they are
C30_ResetTouchesNoStore ==
    (last' # last /\ last'.op = "soft_reset") =>
        UNCHANGED <<cache, docs, db, current, nextId>>

\* C30, the commit that follows: it applies no edit and leaves the slides
\* and the audit trail as they were
C30_CommitAfterReset ==
    (last.op = "soft_reset" /\ last'.op = "commit_edits") =>
        /\ "success" \in DOMAIN last'.ret => last'.ret.applied_count = 0
        /\ heap'[current].presentation = Session.presentation
        /\ heap'[current].applied_edits = Session.applied_edits
        /\ heap'[current].pending_edits = <<>>

\* C30: soft_reset empties the queue and leaves the presentation and the
\* audit trail (and all but the updated_at stamp) as they were; a commit
\* that follows applies no edit and leaves the slide sequence as it was.
C30_SoftReset ==
    /\ []C30_ResetKeepsTheRest
    /\ [][C30_ResetTouchesNoStore /\ C30_CommitAfterReset]_vars

\* a reset discarded queued edits of a session with committed slides
C30_Witness ==
    /\ last.op = "soft_reset"
    /\ last.pre.pending_edits # <<>>
    /\ last.pre.presentation # NoPresentation
    /\ Session.presentation.slides # <<>>
    /\ Session.applied_edits # <<>>

\* C31, the call: create_presentation(title) on a bound session leaves a
\* presentation of that title with no slides and an empty theme and an
\* empty queue, and returns the title and slide_count 0; with no session
\* bound it returns the error dict and changes nothing
C31_Call ==
    \A args \in CreateArgs :
        tool_create_presentation(args) =>
            IF Bound
            THEN /\ heap'[current].presentation
                        = [title |-> args.title, slides |-> <<>>, theme |-> EmptyDict]
                 /\ heap'[current].pending_edits = <<>>
                 /\ last'.ret = [success |-> TRUE, title |-> args.title,
                                 slide_count |-> 0]
            ELSE /\ last'.ret = Error("No active session")
                 /\ UNCHANGED <<heap, cache, docs, db, current, clock, nextId>>

\* C31, the commit that follows: it applies nothing to the new presentation
C31_CommitAfterCreate ==
    (last.op = "create_presentation" /\ Bound /\ tool_commit_edits) =>
        /\ last'.ret.applied_count = 0
        /\ heap'[current].presentation.slides = <<>>

\* C31: create_presentation gives the bound session a presentation with
\* the title, no slides and an empty theme, empties the queue (a commit
\* that follows applies no edit staged before), and reports slide_count 0;
\* with no session bound it returns the error and changes nothing.
C31_CreatePresentation ==
    [][C31_Call /\ C31_CommitAfterCreate]_vars

\* a presentation was created over a session that had staged edits and had
\* never committed or saved them
C31_Witness ==
    /\ Bound
    /\ last.op = "create_presentation"
    /\ "success" \in DOMAIN last.ret
    /\ nextId >= 1
    /\ docs[Session.session_id] = NoDoc
    /\ Session.pending_edits = <<>>

\* the step is a call of the slide patch
PatchCall == last' # last /\ last'.op = "update_slide_content"

\* the session the patch finds for the id: the cached one, else the one
\* the document gives, else none
PatchFinds(session_id) ==
    IF cache[session_id] # 0 THEN heap[cache[session_id]]
    ELSE IF docs[session_id] # NoDoc THEN SessionFromDict(docs[session_id])
    ELSE NoObject

\* the patch with these arguments is valid: the session is known, has a
\* presentation, and the index is one of its slides
PatchValid(args) ==
    LET s == PatchFinds(args.session_id)
    IN  /\ s # NoObject
        /\ s.presentation # NoPresentation
        /\ 0 <= args.slide_index
        /\ args.slide_index < Len(s.presentation.slides)

\* C32, a valid patch: the slide has the new html in the session and in the
\* document, the other slides are as they were, and the index row is that
\* of the session
C32_ValidPatchSaved ==
    (PatchCall /\ PatchValid(last'.pre)) =>
        LET id == last'.pre.session_id
            i == last'.pre.slide_index + 1
            before == PatchFinds(id).presentation.slides
            after == heap'[cache'[id]]
        IN  /\ "success" \in DOMAIN last'.ret
            /\ cache'[id] # 0
            /\ after.presentation.slides
                   = [before EXCEPT ![i].html = last'.pre.html]
            /\ docs'[id] = SessionToDict(after)
            /\ docs'[id].presentation.slides[i].html = last'.pre.html
            /\ db'[id] = IndexRow(after)

\* C32, any other patch: it is refused, and no session object, document or
\* index row changes
C32_InvalidPatchRefused ==
    (PatchCall /\ ~PatchValid(last'.pre)) =>
        /\ "status_code" \in DOMAIN last'.ret
        /\ docs' = docs
        /\ db' = db
        /\ \A o \in 1..Len(heap) : heap'[o] = heap[o]
        /\ PatchFinds(last'.pre.session_id) # NoObject =>
               heap'[cache'[last'.pre.session_id]]
                   = PatchFinds(last'.pre.session_id)

\* C32: the slide patch with a valid index replaces the html of that slide
\* and saves, so that the document holds the new html when it returns; for
\* an unknown session, a session with no presentation or an index outside
\* [0, slide count) it is refused and neither the session nor the document
\* nor the index changes.
C32_PatchPersisted ==
    [][C32_ValidPatchSaved /\ C32_InvalidPatchRefused]_vars

\* a patch replaced the html of the second slide of a stored deck that was
\* not in the cache
C32_Witness ==
    /\ last.op = "update_slide_content"
    /\ "success" \in DOMAIN last.ret
    /\ last.pre.slide_index = 1
    /\ docs[last.pre.session_id].presentation.slides[2].html = last.pre.html
    /\ docs[last.pre.session_id].presentation.slides[1].html = "A"

\* a pass that ran statement by statement gives what the loop gives
PassMatchesLoop ==
    Committed =>
        LET done == CommitLoop(PreQueue, 1,
                        [slides |-> PreSlides,
                         applied_edits |-> last.pre.applied_edits,
                         applied_count |-> 0])
        IN  /\ last.ret = CommitReturn(done)
            /\ (Bound /\ pc.at = "idle") =>
                   /\ PostSlides = done.slides
                   /\ Session.applied_edits = done.applied_edits

\* C33: what a reader of the session is given (the slides endpoint,
\* list_slides) has slides[i].index = i for every i, whenever it runs: a
\* commit on the session gives way to no reader between the insertion or
\* removal of a slide and the re-index that follows (and the pass, taken
\* statement by statement, gives what the commit loop gives).
C33_ReadersSeeIndexedSlides ==
    /\ (last.op \in {"get_slides", "list_slides"} /\ "slides" \in DOMAIN last.ret)
           => \A i \in 1..Len(last.ret.slides) : last.ret.slides[i].index = i - 1
    /\ pc.at \in PassAwaitPoints => C1_ReindexInvariant
    /\ PassMatchesLoop

\* a reader was given two or more slides after a commit
C33_Witness ==
    /\ last.op = "get_slides"
    /\ "slides" \in DOMAIN last.ret
    /\ Len(last.ret.slides) >= 2
    /\ pc.committed
    /\ Bound /\ Session.applied_edits # <<>>

\* the last step was a crash inside a pass of the cleanup task
CrashedInPass == last.op = "crash" /\ last.pre.task = "pass"

\* C34 (as claimed): the sweep removes the cache entry, then the document,
\* then the index row, and so no write of a pass takes a session that has
\* a document to an index row without one: the state in which a crash
\* after that write, the cache being lost with the process, leaves an
\* index row with neither a document nor a cache entry.
C34_NoDanglingIndex ==
    [][pc.task = "pass" =>
           \A id \in DOMAIN docs :
               (docs[id] # NoDoc /\ db'[id] # NoRow) => docs'[id] # NoDoc]_vars

\* C34 (amended): with the order cache, document, index row, a crash at any
\* point of a pass leaves no session of the pass with a document and no
\* index row; an index row it leaves (with or without a document) is
\* selected again by the next pass.
C34_NoDocumentOrphaned ==
    CrashedInPass =>
        \A id \in last.pre.old_sessions :
            /\ docs[id] # NoDoc => db[id] # NoRow
            /\ db[id] # NoRow => id \in OldSessions(clock - RetentionTicks)

\* the process crashed after the pop and before the rmtree of a session
\* that has a document and an index row
C34_Witness ==
    /\ CrashedInPass
    /\ last.pre.step = "rmtree"
    /\ docs[last.pre.session_id] # NoDoc
    /\ db[last.pre.session_id] # NoRow
    /\ cache[last.pre.session_id] = 0

\* C38 (as claimed): wherever no save and no pass is under way, also after
\* a crash that stopped a save or a pass between two of its writes, every
\* session that has a document has an index row.
C38_DocumentHasIndexRecord ==
    (pc.save = 0 /\ pc.task # "pass") =>
        \A id \in DOMAIN docs : docs[id] # NoDoc => db[id] # NoRow

\* the index row of session id is older than the cutoff of a pass that
\* would start now
ExpiredNow(id) == id \in OldSessions(clock - RetentionTicks)

\* C35: every pass, also one that raised, is followed by the sleep of the
\* loop and not by the end of the task; a task that sleeps runs another
\* pass unless the app shuts down; and so a session that is expired is in
\* the end removed (or saved again), unless the app shuts down.
C35_SweeperKeepsRunning ==
    /\ [][(pc.task = "pass" /\ pc'.task # "pass") => pc'.task = "sleep"]_vars
    /\ (pc.task = "sleep") ~> (pc.task = "pass" \/ pc.lifespan # "serving")
    /\ \A id \in StoreSids :
           ExpiredNow(id) ~> (~ExpiredNow(id) \/ pc.lifespan # "serving")

\* a pass raised, and a later pass removed a session
C35_Witness ==
    /\ pc.faults >= 1
    /\ last.op = "cleanup_pass"
    /\ "cleaned" \in DOMAIN last.ret
    /\ last.ret.cleaned >= 1

\* the records of the edits of queue, in the order of the queue
Records(queue) == [i \in 1..Len(queue) |-> EditToDict(queue[i])]

\* C36: whatever the interleaving of the tool calls of two runs on one
\* session, a step leaves the queue of a session object as it was, with the
\* edits staged by the step at its end, unless it is a commit, which empties
\* the queue and has processed every edit that was in it (each is recorded
\* in the audit trail, in the order of the queue), or a create_presentation,
\* which discards the queue.
C36_NoStagedEditLost ==
    [][\A o \in 1..Len(heap) :
           o <= Len(heap') =>
               \/ IsPrefix(heap[o].pending_edits, heap'[o].pending_edits)
               \/ /\ last'.op = "commit_edits" /\ "success" \in DOMAIN last'.ret
                  /\ o = current
                  /\ heap'[o].pending_edits = <<>>
                  /\ heap'[o].applied_edits =
                         heap[o].applied_edits \o Records(heap[o].pending_edits)
               \/ /\ last'.op = "create_presentation"
                  /\ "success" \in DOMAIN last'.ret
                  /\ o = current
                  /\ heap'[o].pending_edits = <<>>]_vars

\* a run committed a queue of two or more edits, staged after an earlier
\* commit, while another run on the same session was in flight
C36_Witness ==
    /\ Committed
    /\ current # 0 /\ parked = current
    /\ Len(PreQueue) >= 2
    /\ last.pre.applied_edits # <<>>
    /\ Session.pending_edits = <<>>
    /\ Len(Session.applied_edits) = Len(last.pre.applied_edits) + Len(PreQueue)

\* the slide count after the edits of q, from n slides, when every ADD adds
\* one slide and a DELETE in range removes one
RECURSIVE CountAnyAdd(_, _)
CountAnyAdd(n, q) ==
    IF q = <<>> THEN n
    ELSE CountAnyAdd(CASE Head(q).operation = "ADD" -> n + 1
                       [] Head(q).operation = "DELETE"
                              /\ 0 <= Head(q).slide_index
                              /\ Head(q).slide_index < n -> n - 1
                       [] OTHER -> n,
                     Tail(q))

\* ... when an ADD that raises adds none
RECURSIVE CountAfter(_, _)
CountAfter(n, q) ==
    IF q = <<>> THEN n
    ELSE CountAfter(CASE Head(q).operation = "ADD" /\ ~Raises(Head(q)) -> n + 1
                      [] Head(q).operation = "DELETE"
                             /\ 0 <= Head(q).slide_index
                             /\ Head(q).slide_index < n -> n - 1
                      [] OTHER -> n,
                    Tail(q))

\* a and b hold the same values, each as often
SameBag(a, b) ==
    /\ Len(a) = Len(b)
    /\ \A i \in 1..Len(a) :
           Cardinality({j \in 1..Len(a) : a[j] = a[i]})
               = Cardinality({j \in 1..Len(b) : b[j] = a[i]})

\* what edit may change of the slides it finds
Frame(before, after, edit) ==
    CASE edit.operation = "UPDATE" ->
             /\ Len(after) = Len(before)
             /\ \A j \in 1..Len(before) :
                    IF j = edit.slide_index + 1
                    THEN after[j] = [before[j] EXCEPT !.html = after[j].html]
                    ELSE after[j] = before[j]
      [] edit.operation = "DELETE" ->
             IsSubsequence(Contents(after), Contents(before))
      [] edit.operation = "REORDER" ->
             SameBag(Contents(after), Contents(before))
      [] OTHER -> TRUE

\* every edit of the committed queue keeps to its frame on the slides it
\* finds when its turn comes
FramesKept ==
    \A i \in 1..Len(PreQueue) :
        Frame(EffectInOrder(PreSlides, SubSeq(PreQueue, 1, i - 1)),
              EffectInOrder(PreSlides, SubSeq(PreQueue, 1, i)),
              PreQueue[i])

Gone(id) == cache[id] = 0 /\ docs[id] = NoDoc /\ db[id] = NoRow

\* C39 (as claimed): a session that is in none of the three representations
\* (a sweep removed it) stays so until get_or_create_session is called with
\* its id; a save by a request that holds the session object does not put
\* it back.
C39_SweptStaysGone ==
    [][\A id \in DOMAIN cache :
           (Gone(id) /\ ~(last'.op = "run_agent_stream_begin"
                            /\ last'.ret.session_id = id))
               => Gone(id)']_vars

\* C40: a caller that is in no method, or waits for the lock, does not hold
\* it (every call releases it when it returns, also when a storage
\* statement raised inside the with block); the lock is taken only when it
\* is free, by a caller that waits for it (no call takes it while it holds
\* it); and every call that was made returns or raises.
C40_StoreCallsComplete ==
    /\ [](\A c \in Callers : pc[c].at \in {"idle", "acquire"} => lock # c)
    /\ [][\A c \in Callers :
              (lock' = c /\ lock # c) => (lock = NoHolder /\ pc[c].at = "acquire")]_vars
    /\ \A c \in Callers : (pc[c].at # "idle") ~> (pc[c].at = "idle")

\* a call raised inside the with block while the other caller waited for
\* the lock, and the lock is free
C40_Witness ==
    /\ "raised" \in DOMAIN last.ret
    /\ lock = NoHolder
    /\ \E c \in Callers : pc[c].at = "acquire" /\ c # last.pre.caller

====
